---- MODULE Spec2Model ----
(***************************************************************************)
(* Model of nthbitlabs/gamelib: the MQTT connection wrapper                *)
(* (MqttClientWrapper), its topic matcher (matchTopic) and the pooled      *)
(* Redis facade (RedisService).                                            *)
(*                                                                         *)
(* The specifications of this module, one per concern:                     *)
(*   SpecConn      the MqttClientWrapper state machine with its            *)
(*                 transports and timers; SpecDispatch adds the handler    *)
(*                 registry and messages, SpecPublish adds publish(),      *)
(*                 SpecCallbacks adds lifecycle callbacks that raise,      *)
(*                 FairConn is the life cycle under event-loop fairness,   *)
(*                 SpecLifecycle the life cycle alone, SpecClear the life  *)
(*                 cycle with handlers and messages around disconnect(),   *)
(*                 SpecSubs the life cycle with the subscribe requests of  *)
(*                 handlers registered on a transport;                     *)
(*   SpecMatch     matchTopic applied to bounded pattern/topic strings;    *)
(*   SpecPool      RedisService.withClient / initPool / shutdown as        *)
(*                 interleaved asynchronous calls; SpecInit is first use   *)
(*                 by concurrent callers, SpecStatic is init() and         *)
(*                 getInstance();                                          *)
(*   SpecStore     set / get / update over a small store;                  *)
(*   FairScan      scanKeys and a caller's scanKeysCursor loop;            *)
(*   SpecScanJSON  scanAndGetJSONCursor with concurrent set();             *)
(*   FairUpdate    concurrent update() calls against the pool's maximum;   *)
(*   SpecValidate  the pool's entries validated when they are borrowed.    *)
(* Each specification leaves the other components' variables untouched.    *)
(***************************************************************************)
EXTENDS Integers, Sequences, FiniteSets, TLC

VARIABLES
    \* ---- MqttClientWrapper fields (part_001:21-32)
    client,                    \* this.client: 0 is null, else a transport id
    reconnectInterval,         \* this.reconnectInterval (base b)
    maxReconnectInterval,      \* this.maxReconnectInterval (cap m)
    currentReconnectInterval,  \* this.currentReconnectInterval
    eventHandlers,             \* this.eventHandlers: Map in insertion order
    reconnectTimeoutId,        \* this.reconnectTimeoutId: 0 is null
    connectionTimeoutId,       \* this.connectionTimeoutId: 0 is null
    isExplicitlyDisconnected,  \* this.isExplicitlyDisconnected
    \* ---- the runtime around the wrapper: transports and the timer queue
    nextClient,                \* number of transports mqtt.connect has made
    tstate,                    \* state of every transport object
    endCb,                     \* end(true, cb) callbacks not yet invoked
    pendingConn,               \* connect-timeout timers scheduled, not fired
    pendingReconn,             \* reconnect timers scheduled, not fired
    \* ---- observations of what the wrapper did (history)
    failures,                  \* reconnect timers scheduled since the last
                               \* 'connect' event (or since construction)
    lastNote,                  \* the last 'disconnected' notifications
    lastSched,                 \* the setTimeout reconnectWithBackoff just made
    lastMsg,                   \* the run of the 'message' handler just made
    lastEv,                    \* the public call or raising callback just run
    subscribed,                \* patterns with a subscribe request issued on
                               \* the transport this.client refers to
    \* ---- matchTopic applied to one pattern and one topic
    mtPattern, mtTopic, mtResult,
    \* ---- RedisService fields and the calls in flight
    pool,                      \* this.pool: 0 is null, else a pool id
    initPromise,               \* this.initPromise: 0 is null
    nPools,                    \* number of pools createPool has made
    pstate,                    \* state of every generic-pool object
    borrowed,                  \* resources borrowed from every pool
    pc,                        \* position of every call
    callPool,                  \* pool a call asked for a resource / drains
    actionOutcome,             \* how the action given to withClient settled
    callResult,                \* how a call settled
    acquired,                  \* resources every call was handed
    released,                  \* resources every call gave back to their pool
    op,                        \* the operation every call runs
    made,                      \* pool a call's initPool() constructed
    \* ---- the key-value store behind the pooled connections
    store,                     \* payload text of every key
    pages,                     \* the pages SCAN walks through, in order
    loc,                       \* local variables of every call
    ret,                       \* value every call resolved with
    \* ---- RedisService static fields and the init() calls in flight
    instance,                  \* RedisService.instance: NoInstance is undefined
    initLock,                  \* RedisService.initLock: "null" or how it settled
    nInstances,                \* number of RedisService objects constructed
    spc,                       \* position of every init() call
    sres,                      \* how every init() call settled
    lastGet,                   \* the getInstance() call just made
    \* ---- update() calls, counted by the await they are at
    upd,                       \* number of update() calls at every position
    \* ---- the entries of one pool and the borrows that test them
    vstate                     \* entries, the calls borrowing them, probes

connVars == <<client, reconnectInterval, maxReconnectInterval,
              currentReconnectInterval, eventHandlers, reconnectTimeoutId,
              connectionTimeoutId, isExplicitlyDisconnected, nextClient,
              tstate, endCb, pendingConn, pendingReconn, failures,
              lastNote, lastSched, lastMsg, lastEv, subscribed>>
matchVars == <<mtPattern, mtTopic, mtResult>>
poolVars == <<pool, initPromise, nPools, pstate, borrowed, pc, callPool,
              actionOutcome, callResult, acquired, released, op, made>>
storeVars == <<store, pages, loc, ret>>
staticVars == <<instance, initLock, nInstances, spc, sres, lastGet>>
vars == <<connVars, matchVars, poolVars, storeVars, staticVars, upd, vstate>>

(***************************************************************************)
(* Bounds of the model.                                                    *)
(***************************************************************************)
MaxClients == 3
MaxDispatchClients == 2
MaxPendingEnd == 2
MaxSegs == 3
MaxPools == 2
MaxCalls == 3
MaxInitCalls == 2
MaxStoreCalls == 2
MaxScanCalls == 2
MaxNotes == 2
MaxStaticCalls == 2
MaxUpdateCalls == 10
MaxEntries == 3
MaxValCalls == 2

Min(a, b) == IF a <= b THEN a ELSE b

(***************************************************************************)
(* Strings are sequences of one-character strings.  split('/') and the     *)
(* inverse join are computed character by character.                       *)
(***************************************************************************)
RECURSIVE SplitFrom(_, _, _, _)
SplitFrom(s, i, seg, acc) ==
    IF i > Len(s) THEN Append(acc, seg)
    ELSE IF s[i] = "/" THEN SplitFrom(s, i + 1, <<>>, Append(acc, seg))
    ELSE SplitFrom(s, i + 1, Append(seg, s[i]), acc)

Split(s) == SplitFrom(s, 1, <<>>, <<>>)

RECURSIVE Join(_)
Join(segs) ==
    IF Len(segs) = 0 THEN <<>>
    ELSE IF Len(segs) = 1 THEN segs[1]
    ELSE segs[1] \o <<"/">> \o Join(Tail(segs))

\* patternSegments[i] / topicSegments[i] past the end of the array
Undefined == <<"undefined">>

SegAt(segs, i) == IF i <= Len(segs) THEN segs[i] ELSE Undefined

\* JavaScript !t for a segment: undefined and the empty string are falsy
Falsy(t) == t = Undefined \/ t = <<>>

RECURSIVE MatchLoop(_, _, _)

\* matchTopic with '#' demanding a topic segment at its own position
MatchLoopHashNeedsSegment(ps, ts, i) ==
    IF i > Len(ps) THEN Len(ps) = Len(ts)
    ELSE LET p == ps[i]
             t == SegAt(ts, i)
         IN  IF p = <<"#">> THEN i = Len(ps) /\ i <= Len(ts)
             ELSE IF p = <<"+">> THEN (IF Falsy(t) THEN FALSE
                                       ELSE MatchLoop(ps, ts, i + 1))
             ELSE IF p # t THEN FALSE
             ELSE MatchLoop(ps, ts, i + 1)

\* matchTopic without the final comparison of the segment counts
MatchLoopNoLengthCheck(ps, ts, i) ==
    IF i > Len(ps) THEN TRUE
    ELSE LET p == ps[i]
             t == SegAt(ts, i)
         IN  IF p = <<"#">> THEN i = Len(ps)
             ELSE IF p = <<"+">> THEN (IF Falsy(t) THEN FALSE
                                       ELSE MatchLoop(ps, ts, i + 1))
             ELSE IF p # t THEN FALSE
             ELSE MatchLoop(ps, ts, i + 1)

\* matchTopic with '#' accepted at any position
MatchLoopHashAnywhere(ps, ts, i) ==
    IF i > Len(ps) THEN Len(ps) = Len(ts)
    ELSE LET p == ps[i]
             t == SegAt(ts, i)
         IN  IF p = <<"#">> THEN TRUE
             ELSE IF p = <<"+">> THEN (IF Falsy(t) THEN FALSE
                                       ELSE MatchLoop(ps, ts, i + 1))
             ELSE IF p # t THEN FALSE
             ELSE MatchLoop(ps, ts, i + 1)

MatchLoop(ps, ts, i) ==
    IF i > Len(ps) THEN Len(ps) = Len(ts)
    ELSE LET p == ps[i]
             t == SegAt(ts, i)
         IN  IF p = <<"#">> THEN i = Len(ps)
             ELSE IF p = <<"+">> THEN (IF Falsy(t) THEN FALSE
                                       ELSE MatchLoop(ps, ts, i + 1))
             ELSE IF p # t THEN FALSE
             ELSE MatchLoop(ps, ts, i + 1)

matchTopic(pattern, topic) == MatchLoop(Split(pattern), Split(topic), 1)

(***************************************************************************)
(* MqttClientWrapper.                                                      *)
(*                                                                         *)
(* A transport (the object mqtt.connect returns) is "connecting",          *)
(* "connected", terminated with its 'close' event not yet delivered        *)
(* ("ending" when it never connected, "endingLive" when it had;            *)
(* "replaced" and "replacedLive" when it was connect() that ended it), or  *)
(* "closed" ('close' delivered).  It is terminated by end(true) or by a    *)
(* failure.  Every event and every timer callback runs to completion on    *)
(* the event loop, so each is one action.  A connect-timeout timer is      *)
(* named by the transport made in the same connect() call and a reconnect  *)
(* timer by the transport whose 'close' event scheduled it.                *)
(*                                                                         *)
(* lastSched, lastMsg and lastEv hold what the step just taken did (the    *)
(* timer it scheduled, the handlers it invoked, how the call ended) and    *)
(* are blank after any other step.                                         *)
(***************************************************************************)
Clients == 1..MaxClients

\* constructor options {reconnectInterval, maxReconnectInterval}
Configs == {<<1, 3>>, <<3, 2>>}

StrXPlus == <<"x", "/", "+">>
StrXY == <<"x", "/", "y">>
StrXZ == <<"x", "/", "z">>
Patterns == {StrXPlus, StrXY}
Topics == {StrXY, StrXZ}
\* what a registered handler does when invoked
HandlerKinds == {"returns", "throws"}

NoSched == [seen |-> FALSE, delay |-> 0, k |-> 0, live |-> FALSE]
NoMsg == [seen |-> FALSE, topic |-> <<>>, registry |-> <<>>,
          invoked |-> <<>>, warned |-> FALSE]
NoNote == [client |-> 0, n |-> 0]
NoEv == [name |-> "none", outcome |-> "none", fails |-> FALSE, id |-> 0,
         pattern |-> <<>>, handler |-> "none"]

\* the fields the constructor sets, for the options cfg
Constructed(cfg) ==
    /\ client = 0
    /\ reconnectInterval = cfg[1]
    /\ maxReconnectInterval = cfg[2]
    /\ currentReconnectInterval = cfg[1]
    /\ eventHandlers = <<>>
    /\ reconnectTimeoutId = 0
    /\ connectionTimeoutId = 0
    /\ isExplicitlyDisconnected = FALSE
    /\ nextClient = 0
    /\ tstate = [c \in Clients |-> "none"]
    /\ endCb = [c \in Clients |-> 0]
    /\ pendingConn = {}
    /\ pendingReconn = {}
    /\ failures = 0
    /\ lastNote = NoNote
    /\ lastSched = NoSched
    /\ lastMsg = NoMsg
    /\ lastEv = NoEv
    /\ subscribed = {}

InitConn == \E cfg \in Configs : Constructed(cfg)

\* the defaults of the constructor, scaled: 1000 ms is one unit
IdleConn == Constructed(<<1, 3>>)

Live == {"connecting", "connected"}
\* terminated by the end(true) at the start of connect()
Replaced == {"replaced", "replacedLive"}
Ending == {"ending", "endingLive"} \cup Replaced

\* what a live transport becomes when it is terminated
Terminated(st) == IF st = "connected" THEN "endingLive" ELSE "ending"

\* client.end(true) as seen by the transport table: a live transport is
\* terminated and will deliver 'close'; null or a dead one is left alone
EndForce(ts, c) ==
    IF c # 0 /\ ts[c] \in Live
    THEN [ts EXCEPT ![c] = Terminated(@)]
    ELSE ts

\* the client.end(true) at the start of connect()
EndByConnect(ts, c) ==
    IF c # 0 /\ ts[c] \in Live
    THEN [ts EXCEPT ![c] = IF @ = "connected" THEN "replacedLive"
                           ELSE "replaced"]
    ELSE ts

\* the body of connect(): shared by the public call and the reconnect timer;
\* cap bounds the number of transports made
ConnectBody(cap) ==
    LET n == nextClient + 1
    IN  /\ nextClient < cap
        /\ isExplicitlyDisconnected' = FALSE
        /\ nextClient' = n
        /\ client' = n
        /\ subscribed' = {}
        /\ tstate' = [EndByConnect(tstate, client) EXCEPT ![n] = "connecting"]
        /\ connectionTimeoutId' = n
        /\ pendingConn' = pendingConn \cup {n}

Connect(cap) ==
    /\ lastEv' = NoEv
    /\ ConnectBody(cap)
    /\ lastSched' = NoSched
    /\ lastMsg' = NoMsg
    /\ UNCHANGED <<reconnectInterval, maxReconnectInterval,
                   currentReconnectInterval, eventHandlers,
                   reconnectTimeoutId, endCb, pendingReconn, failures,
                   lastNote, matchVars, staticVars, vstate, upd, poolVars, storeVars>>

\* the setTimeout callback of reconnectWithBackoff
ReconnectTimerFire(t, cap) ==
    /\ lastEv' = NoEv
    /\ t \in pendingReconn
    /\ pendingReconn' = pendingReconn \ {t}
    /\ ConnectBody(cap)
    /\ currentReconnectInterval' =
          Min(currentReconnectInterval * 2, maxReconnectInterval)
    /\ lastSched' = NoSched
    /\ lastMsg' = NoMsg
    /\ UNCHANGED <<reconnectInterval, maxReconnectInterval, eventHandlers,
                   reconnectTimeoutId, endCb, failures, lastNote,
                   matchVars, staticVars, vstate, upd, poolVars, storeVars>>

\* timedout() reported by the connect-timeout timer of transport t, which
\* was in state st when the timer fired
TimedOut(t, st) ==
    [name |-> "timeout",
     outcome |-> IF st = "connecting" THEN "firedBeforeConnect" ELSE "fired",
     fails |-> FALSE, id |-> t,
     pattern |-> <<>>, handler |-> "none"]

\* the setTimeout callback of connect(): timedout(), this.client?.end(true)
ConnTimeoutFire(t) ==
    /\ lastEv' = TimedOut(t, tstate[t])
    /\ t \in pendingConn
    /\ pendingConn' = pendingConn \ {t}
    /\ tstate' = EndForce(tstate, client)
    /\ lastSched' = NoSched
    /\ lastMsg' = NoMsg
    /\ UNCHANGED <<client, reconnectInterval, maxReconnectInterval,
                   currentReconnectInterval, eventHandlers,
                   reconnectTimeoutId, connectionTimeoutId,
                   isExplicitlyDisconnected, nextClient, endCb,
                   pendingReconn, failures, lastNote, subscribed, matchVars, staticVars, vstate, upd, poolVars, storeVars>>

\* client.once('connect', ...)
OnConnect(c) ==
    /\ lastEv' = NoEv
    /\ tstate[c] = "connecting"
    /\ tstate' = [tstate EXCEPT ![c] = "connected"]
    /\ pendingConn' = pendingConn \ {connectionTimeoutId}
    /\ currentReconnectInterval' = reconnectInterval
    /\ failures' = 0
    /\ lastSched' = NoSched
    /\ lastMsg' = NoMsg
    /\ UNCHANGED <<client, reconnectInterval, maxReconnectInterval,
                   eventHandlers, reconnectTimeoutId, connectionTimeoutId,
                   isExplicitlyDisconnected, nextClient, endCb,
                   pendingReconn, lastNote, subscribed, matchVars, staticVars, vstate, upd, poolVars, storeVars>>

\* reconnectWithBackoff(), called for the 'close' of transport c: the timer
\* is scheduled with the current interval
reconnectWithBackoff(c) ==
    /\ pendingReconn' = pendingReconn \cup {c}
    /\ reconnectTimeoutId' = c
    /\ failures' = failures + 1
    /\ lastSched' = [seen |-> TRUE, delay |-> currentReconnectInterval,
                     k |-> failures + 1, live |-> tstate[c] \in {"endingLive", "replacedLive"}]

\* client.on('close', ...)
OnClose(c) ==
    /\ lastEv' = NoEv
    /\ tstate[c] \in Ending
    /\ tstate' = [tstate EXCEPT ![c] = "closed"]
    /\ IF ~isExplicitlyDisconnected
       THEN reconnectWithBackoff(c)
       ELSE /\ lastSched' = NoSched
            /\ UNCHANGED <<pendingReconn, reconnectTimeoutId, failures>>
    /\ lastMsg' = NoMsg
    /\ UNCHANGED <<client, reconnectInterval, maxReconnectInterval,
                   currentReconnectInterval, eventHandlers,
                   connectionTimeoutId, isExplicitlyDisconnected, nextClient,
                   endCb, pendingConn, lastNote, subscribed, matchVars, staticVars, vstate, upd, poolVars, storeVars>>

\* client.on('error', ...): the transport fails and its 'close' follows
OnError(c) ==
    /\ lastEv' = NoEv
    /\ tstate[c] \in Live
    /\ tstate' = [tstate EXCEPT ![c] = Terminated(@)]
    /\ pendingConn' = pendingConn \ {connectionTimeoutId}
    /\ lastSched' = NoSched
    /\ lastMsg' = NoMsg
    /\ UNCHANGED <<client, reconnectInterval, maxReconnectInterval,
                   currentReconnectInterval, eventHandlers,
                   reconnectTimeoutId, connectionTimeoutId,
                   isExplicitlyDisconnected, nextClient, endCb,
                   pendingReconn, failures, lastNote, subscribed, matchVars, staticVars, vstate, upd, poolVars, storeVars>>

\* the broker or the network drops a live transport without an 'error'
TransportDrop(c) ==
    /\ lastEv' = NoEv
    /\ tstate[c] \in Live
    /\ tstate' = [tstate EXCEPT ![c] = Terminated(@)]
    /\ lastSched' = NoSched
    /\ lastMsg' = NoMsg
    /\ UNCHANGED <<client, reconnectInterval, maxReconnectInterval,
                   currentReconnectInterval, eventHandlers,
                   reconnectTimeoutId, connectionTimeoutId,
                   isExplicitlyDisconnected, nextClient, endCb, pendingConn,
                   pendingReconn, failures, lastNote, subscribed, matchVars, staticVars, vstate, upd, poolVars, storeVars>>

\* a public call that has returned normally
Returned(name) ==
    [name |-> name, outcome |-> "returned", fails |-> FALSE, id |-> 0,
     pattern |-> <<>>, handler |-> "none"]

\* disconnect() invoking disconnected() itself instead of handing it to
\* client.end(true, cb)
DisconnectNotifiesInline ==
    /\ lastEv' = Returned("disconnect")
    /\ isExplicitlyDisconnected' = TRUE
    /\ pendingReconn' = pendingReconn \ {reconnectTimeoutId}
    /\ reconnectTimeoutId' = 0
    /\ pendingConn' = pendingConn \ {connectionTimeoutId}
    /\ connectionTimeoutId' = 0
    /\ eventHandlers' = <<>>
    /\ tstate' = EndForce(tstate, client)
    /\ lastNote' = [client |-> client, n |-> 1]
    /\ client' = 0
    /\ subscribed' = {}
    /\ lastSched' = NoSched
    /\ lastMsg' = NoMsg
    /\ UNCHANGED <<reconnectInterval, maxReconnectInterval,
                   currentReconnectInterval, nextClient, failures, endCb,
                   matchVars, staticVars, vstate, upd, poolVars, storeVars>>

\* disconnect() without this.eventHandlers.clear()
DisconnectKeepsHandlers ==
    /\ lastEv' = Returned("disconnect")
    /\ client # 0 => endCb[client] < MaxPendingEnd
    /\ isExplicitlyDisconnected' = TRUE
    /\ pendingReconn' = pendingReconn \ {reconnectTimeoutId}
    /\ reconnectTimeoutId' = 0
    /\ pendingConn' = pendingConn \ {connectionTimeoutId}
    /\ connectionTimeoutId' = 0
    /\ eventHandlers' = eventHandlers
    /\ tstate' = EndForce(tstate, client)
    /\ endCb' = IF client # 0
                THEN [endCb EXCEPT ![client] = @ + 1]
                ELSE endCb
    /\ lastSched' = NoSched
    /\ lastMsg' = NoMsg
    /\ UNCHANGED <<client, reconnectInterval, maxReconnectInterval,
                   currentReconnectInterval, nextClient, failures, lastNote,
                   subscribed, matchVars, staticVars, vstate, upd, poolVars, storeVars>>

Disconnect ==
    /\ lastEv' = Returned("disconnect")
    /\ client # 0 => endCb[client] < MaxPendingEnd
    /\ isExplicitlyDisconnected' = TRUE
    /\ pendingReconn' = pendingReconn \ {reconnectTimeoutId}
    /\ reconnectTimeoutId' = 0
    /\ pendingConn' = pendingConn \ {connectionTimeoutId}
    /\ connectionTimeoutId' = 0
    /\ eventHandlers' = <<>>
    /\ tstate' = EndForce(tstate, client)
    /\ endCb' = IF client # 0
                THEN [endCb EXCEPT ![client] = @ + 1]
                ELSE endCb
    /\ lastSched' = NoSched
    /\ lastMsg' = NoMsg
    /\ UNCHANGED <<client, reconnectInterval, maxReconnectInterval,
                   currentReconnectInterval, nextClient, failures, lastNote,
                   subscribed, matchVars, staticVars, vstate, upd, poolVars, storeVars>>

\* the callback given to client.end(true, cb) in disconnect(), invoked once
\* for every such call when transport c is terminated
OnEnd(c) ==
    /\ lastEv' = NoEv
    /\ endCb[c] > 0
    /\ tstate[c] \in Ending \cup {"closed"}
    /\ endCb' = [endCb EXCEPT ![c] = @ - 1]
    /\ lastNote' = [client |-> c,
                    n |-> IF lastNote.client = c THEN lastNote.n + 1 ELSE 1]
    /\ client' = 0
    /\ subscribed' = {}
    /\ lastSched' = NoSched
    /\ lastMsg' = NoMsg
    /\ UNCHANGED <<reconnectInterval, maxReconnectInterval,
                   currentReconnectInterval, eventHandlers,
                   reconnectTimeoutId, connectionTimeoutId,
                   isExplicitlyDisconnected, nextClient, tstate, pendingConn,
                   pendingReconn, failures, matchVars, staticVars, vstate, upd, poolVars, storeVars>>

\* Map.prototype.set: an existing key keeps its place in the iteration order
MapSet(reg, p, h) ==
    IF \E i \in 1..Len(reg) : reg[i].pattern = p
    THEN [i \in 1..Len(reg) |->
             IF reg[i].pattern = p THEN [pattern |-> p, handler |-> h]
             ELSE reg[i]]
    ELSE Append(reg, [pattern |-> p, handler |-> h])

MapDelete(reg, p) == SelectSeq(reg, LAMBDA e : e.pattern # p)

\* subscribe() / unsubscribe(): raises when this.client is null; otherwise
\* the request goes to the transport, whose failure (fails) reaches only the
\* logging callback
subscribe(cl, fails) ==
    IF cl = 0 THEN "raised"
    ELSE IF fails THEN "logged"
    ELSE "returned"

\* this.client.subscribe(topic, cb) / this.client.unsubscribe(topic, cb): the
\* request is issued on the transport this.client refers to; a transport
\* mqtt.connect has just made has none
subscribeOn(sub, cl, p) ==
    IF cl = 0 THEN sub ELSE sub \cup {p}

unsubscribeOn(sub, cl, p) ==
    IF cl = 0 THEN sub ELSE sub \ {p}

\* registerHandler: the registry is written, then subscribe() runs
RegisterHandler(p, h, fails) ==
    /\ eventHandlers' = MapSet(eventHandlers, p, h)
    /\ subscribed' = subscribeOn(subscribed, client, p)
    /\ lastEv' = [name |-> "registerHandler",
                  outcome |-> subscribe(client, fails),
                  fails |-> fails, id |-> client,
                  pattern |-> p, handler |-> h]
    /\ lastSched' = NoSched
    /\ lastMsg' = NoMsg
    /\ UNCHANGED <<client, reconnectInterval, maxReconnectInterval,
                   currentReconnectInterval, reconnectTimeoutId,
                   connectionTimeoutId, isExplicitlyDisconnected, nextClient,
                   tstate, endCb, pendingConn, pendingReconn, failures,
                   lastNote, matchVars, staticVars, vstate, upd, poolVars, storeVars>>

\* unregisterHandler: the entry is deleted, then unsubscribe() runs
UnregisterHandler(p, fails) ==
    /\ eventHandlers' = MapDelete(eventHandlers, p)
    /\ subscribed' = unsubscribeOn(subscribed, client, p)
    /\ lastEv' = [name |-> "unregisterHandler",
                  outcome |-> subscribe(client, fails),
                  fails |-> fails, id |-> client,
                  pattern |-> p, handler |-> "none"]
    /\ lastSched' = NoSched
    /\ lastMsg' = NoMsg
    /\ UNCHANGED <<client, reconnectInterval, maxReconnectInterval,
                   currentReconnectInterval, reconnectTimeoutId,
                   connectionTimeoutId, isExplicitlyDisconnected, nextClient,
                   tstate, endCb, pendingConn, pendingReconn, failures,
                   lastNote, matchVars, staticVars, vstate, upd, poolVars, storeVars>>

\* the for-loop of the 'message' handler inside its try block: a handler
\* that throws leaves the loop; the warning is given when nothing matched
RECURSIVE DispatchLoop(_, _, _, _, _)
DispatchLoop(reg, topic, i, invoked, matched) ==
    IF i > Len(reg)
    THEN [invoked |-> invoked, warned |-> ~matched]
    ELSE IF matchTopic(reg[i].pattern, topic)
         THEN IF reg[i].handler = "throws"
              THEN [invoked |-> Append(invoked, reg[i].pattern),
                    warned |-> FALSE]
              ELSE DispatchLoop(reg, topic, i + 1,
                                Append(invoked, reg[i].pattern), TRUE)
         ELSE DispatchLoop(reg, topic, i + 1, invoked, matched)

\* client.on('message', ...)
OnMessage(c, topic) ==
    /\ lastEv' = NoEv
    /\ tstate[c] = "connected"
    /\ LET d == DispatchLoop(eventHandlers, topic, 1, <<>>, FALSE)
       IN  lastMsg' = [seen |-> TRUE, topic |-> topic,
                       registry |-> eventHandlers,
                       invoked |-> d.invoked, warned |-> d.warned]
    /\ lastSched' = NoSched
    /\ UNCHANGED <<client, reconnectInterval, maxReconnectInterval,
                   currentReconnectInterval, eventHandlers,
                   reconnectTimeoutId, connectionTimeoutId,
                   isExplicitlyDisconnected, nextClient, tstate, endCb,
                   pendingConn, pendingReconn, failures, lastNote,
                   subscribed, matchVars, staticVars, vstate, upd, poolVars, storeVars>>

\* publish() with '!this.client' read as 'the transport is not connected'
publishThrowsOnFailure(cl, fails) ==
    IF cl = 0 THEN "raised"
    ELSE IF fails THEN "raised"
    ELSE "sent"

\* publish(): raises when this.client is null; otherwise the message goes to
\* the transport, whose failure (fails) reaches only the logging callback
publishOutcome(cl, fails) ==
    IF cl = 0 THEN "raised"
    ELSE IF fails THEN "logged"
    ELSE "sent"

Publish(fails) ==
    /\ lastEv' = [name |-> "publish", outcome |-> publishOutcome(client, fails),
                  fails |-> fails, id |-> client,
     pattern |-> <<>>, handler |-> "none"]
    /\ lastSched' = NoSched
    /\ lastMsg' = NoMsg
    /\ UNCHANGED <<client, reconnectInterval, maxReconnectInterval,
                   currentReconnectInterval, eventHandlers,
                   reconnectTimeoutId, connectionTimeoutId,
                   isExplicitlyDisconnected, nextClient, tstate, endCb,
                   pendingConn, pendingReconn, failures, lastNote,
                   subscribed, matchVars, staticVars, vstate, upd, poolVars, storeVars>>

(***************************************************************************)
(* The same events with a lifecycle callback that raises.  The callbacks   *)
(* are called outside any try block, so the exception ends the handler at  *)
(* the call: only the statements before it have run.                       *)
(***************************************************************************)
CallbackRaised(name, c) ==
    [name |-> name, outcome |-> "callbackRaised", fails |-> FALSE, id |-> c,
     pattern |-> <<>>, handler |-> "none"]

\* connect() with connecting() raising: lines 47-56 have run
ConnectRaising ==
    /\ tstate' = EndByConnect(tstate, client)
    /\ isExplicitlyDisconnected' = FALSE
    /\ lastEv' = CallbackRaised("connect", client)
    /\ lastSched' = NoSched
    /\ lastMsg' = NoMsg
    /\ UNCHANGED <<client, reconnectInterval, maxReconnectInterval,
                   currentReconnectInterval, eventHandlers,
                   reconnectTimeoutId, connectionTimeoutId, nextClient,
                   endCb, pendingConn, pendingReconn, failures, lastNote,
                   subscribed, matchVars, staticVars, vstate, upd, poolVars, storeVars>>

\* the reconnect timer with connecting() raising: connect() is not reached
ReconnectTimerFireRaising(t) ==
    /\ t \in pendingReconn
    /\ pendingReconn' = pendingReconn \ {t}
    /\ lastEv' = CallbackRaised("reconnectTimer", t)
    /\ lastSched' = NoSched
    /\ lastMsg' = NoMsg
    /\ UNCHANGED <<client, reconnectInterval, maxReconnectInterval,
                   currentReconnectInterval, eventHandlers,
                   reconnectTimeoutId, connectionTimeoutId,
                   isExplicitlyDisconnected, nextClient, tstate, endCb,
                   pendingConn, failures, lastNote, subscribed, matchVars, staticVars, vstate, upd, poolVars, storeVars>>

\* the connect-timeout timer with timedout() raising: end(true) is not
\* reached
ConnTimeoutFireRaising(t) ==
    /\ t \in pendingConn
    /\ pendingConn' = pendingConn \ {t}
    /\ lastEv' = CallbackRaised("timeout", t)
    /\ lastSched' = NoSched
    /\ lastMsg' = NoMsg
    /\ UNCHANGED <<client, reconnectInterval, maxReconnectInterval,
                   currentReconnectInterval, eventHandlers,
                   reconnectTimeoutId, connectionTimeoutId,
                   isExplicitlyDisconnected, nextClient, tstate, endCb,
                   pendingReconn, failures, lastNote, subscribed, matchVars, staticVars, vstate, upd, poolVars, storeVars>>

\* 'connect' with connected() raising: the callback is the last statement
OnConnectRaising(c) ==
    /\ tstate[c] = "connecting"
    /\ tstate' = [tstate EXCEPT ![c] = "connected"]
    /\ pendingConn' = pendingConn \ {connectionTimeoutId}
    /\ currentReconnectInterval' = reconnectInterval
    /\ failures' = 0
    /\ lastEv' = CallbackRaised("connected", c)
    /\ lastSched' = NoSched
    /\ lastMsg' = NoMsg
    /\ UNCHANGED <<client, reconnectInterval, maxReconnectInterval,
                   eventHandlers, reconnectTimeoutId, connectionTimeoutId,
                   isExplicitlyDisconnected, nextClient, endCb,
                   pendingReconn, lastNote, subscribed, matchVars, staticVars, vstate, upd, poolVars, storeVars>>

\* 'close' with closed() raising: the flag test and reconnectWithBackoff()
\* are not reached
OnCloseRaising(c) ==
    /\ tstate[c] \in Ending
    /\ tstate' = [tstate EXCEPT ![c] = "closed"]
    /\ lastEv' = CallbackRaised("close", c)
    /\ lastSched' = NoSched
    /\ lastMsg' = NoMsg
    /\ UNCHANGED <<client, reconnectInterval, maxReconnectInterval,
                   currentReconnectInterval, eventHandlers,
                   reconnectTimeoutId, connectionTimeoutId,
                   isExplicitlyDisconnected, nextClient, endCb, pendingConn,
                   pendingReconn, failures, lastNote, subscribed, matchVars, staticVars, vstate, upd, poolVars, storeVars>>

\* 'error' with error() raising: clearTimeout is not reached
OnErrorRaising(c) ==
    /\ tstate[c] \in Live
    /\ tstate' = [tstate EXCEPT ![c] = Terminated(@)]
    /\ lastEv' = CallbackRaised("error", c)
    /\ lastSched' = NoSched
    /\ lastMsg' = NoMsg
    /\ UNCHANGED <<client, reconnectInterval, maxReconnectInterval,
                   currentReconnectInterval, eventHandlers,
                   reconnectTimeoutId, connectionTimeoutId,
                   isExplicitlyDisconnected, nextClient, endCb, pendingConn,
                   pendingReconn, failures, lastNote, subscribed, matchVars, staticVars, vstate, upd, poolVars, storeVars>>

\* the end callback with disconnected() raising: this.client = null is not
\* reached
OnEndRaising(c) ==
    /\ endCb[c] > 0
    /\ lastNote.client = c => lastNote.n < MaxNotes
    /\ tstate[c] \in Ending \cup {"closed"}
    /\ endCb' = [endCb EXCEPT ![c] = @ - 1]
    /\ lastNote' = [client |-> c,
                    n |-> IF lastNote.client = c THEN lastNote.n + 1 ELSE 1]
    /\ lastEv' = CallbackRaised("disconnected", c)
    /\ lastSched' = NoSched
    /\ lastMsg' = NoMsg
    /\ UNCHANGED <<client, reconnectInterval, maxReconnectInterval,
                   currentReconnectInterval, eventHandlers,
                   reconnectTimeoutId, connectionTimeoutId,
                   isExplicitlyDisconnected, nextClient, tstate, pendingConn,
                   pendingReconn, failures, subscribed, matchVars, staticVars, vstate, upd, poolVars, storeVars>>

IdleMatch ==
    /\ mtPattern = <<>>
    /\ mtTopic = <<>>
    /\ mtResult = "idle"

Calls == 1..MaxCalls
Pools == 1..MaxPools

\* generic-pool option max of createPool
PoolMax == 10

InitPool ==
    /\ pool = 0
    /\ initPromise = 0
    /\ nPools = 0
    /\ pstate = [p \in Pools |-> "none"]
    /\ borrowed = [p \in Pools |-> 0]
    /\ pc = [c \in Calls |-> "idle"]
    /\ callPool = [c \in Calls |-> 0]
    /\ actionOutcome = [c \in Calls |-> "none"]
    /\ callResult = [c \in Calls |-> "none"]
    /\ acquired = [c \in Calls |-> 0]
    /\ released = [c \in Calls |-> 0]
    /\ op = [c \in Calls |-> "none"]
    /\ made = [c \in Calls |-> 0]

Keys == {"k1", "k2"}

\* the reply for a key that is absent, and JavaScript null as a payload
Null == <<"null">>

\* a deserialized value: a number, or null
JSONNull == [isNull |-> TRUE, v |-> 0]

NoLoc == [key |-> "k1", value |-> 0, cursor |-> 0, next |-> 0, acc |-> <<>>,
          steps |-> 0, page |-> <<>>, innerPool |-> 0, inner |-> "none",
          loopDone |-> FALSE]
NoRet == [value |-> JSONNull, cursor |-> 0, keys |-> <<>>, map |-> {}]

IdleStore ==
    /\ store = [k \in Keys |-> Null]
    /\ pages = << <<>> >>
    /\ loc = [c \in Calls |-> NoLoc]
    /\ ret = [c \in Calls |-> NoRet]

\* RedisService.instance before any init(): undefined
NoInstance == [id |-> 0, options |-> "none"]
NoGet == [seen |-> FALSE, outcome |-> "none", value |-> NoInstance,
          had |-> NoInstance]

\* an init() call: its arguments, the instance it found, how it settled
NoInit == [outcome |-> "none", options |-> "none", had |-> NoInstance]

StaticCalls == 1..MaxStaticCalls

IdleStatic ==
    /\ instance = NoInstance
    /\ initLock = "null"
    /\ nInstances = 0
    /\ spc = [c \in StaticCalls |-> "idle"]
    /\ sres = [c \in StaticCalls |-> NoInit]
    /\ lastGet = NoGet

\* the awaits of update(), and how it settles
UpdPositions == {"awaitInit", "acquiring", "action", "innerAwaitInit",
                 "innerAcquiring", "innerAction", "innerDone",
                 "resolved", "rejected"}

IdleUpd == upd = [p \in UpdPositions |-> 0]

\* the pool entries (Redis connections) and the withClient calls of the
\* borrow-time validation
Entries == 1..MaxEntries
ValCalls == 1..MaxValCalls

NoProbe == [seen |-> FALSE, entry |-> 0, ping |-> "none", value |-> FALSE,
            raised |-> FALSE]

IdleVal ==
    vstate = [entry |-> [e \in Entries |-> "none"],
           n |-> 0,
           call |-> [c \in ValCalls |-> "idle"],
           got |-> [c \in ValCalls |-> 0],
           probe |-> [e \in Entries |-> "none"],
           last |-> NoProbe]

(***************************************************************************)
(* SpecConn: the connection life cycle.  The handler registry is read only *)
(* by the 'message' handler, so the registry operations and the messages   *)
(* are exercised in SpecDispatch, over fewer transports.                   *)
(***************************************************************************)
NextConn ==
    \/ Connect(MaxClients)
    \/ Disconnect
    \/ \E t \in Clients : ReconnectTimerFire(t, MaxClients)
    \/ \E t \in Clients : ConnTimeoutFire(t)
    \/ \E c \in Clients : OnConnect(c)
    \/ \E c \in Clients : OnClose(c)
    \/ \E c \in Clients : OnError(c)
    \/ \E c \in Clients : TransportDrop(c)
    \/ \E c \in Clients : OnEnd(c)

InitLifecycle == InitConn /\ IdleMatch /\ InitPool /\ IdleStore /\ IdleStatic /\ IdleUpd /\ IdleVal

SpecConn == InitLifecycle /\ [][NextConn]_vars

NextDispatch ==
    \/ Connect(MaxDispatchClients)
    \/ Disconnect
    \/ \E t \in Clients : ReconnectTimerFire(t, MaxDispatchClients)
    \/ \E t \in Clients : ConnTimeoutFire(t)
    \/ \E c \in Clients : OnConnect(c)
    \/ \E c \in Clients : OnClose(c)
    \/ \E c \in Clients : OnError(c)
    \/ \E c \in Clients : TransportDrop(c)
    \/ \E c \in Clients : OnEnd(c)
    \/ \E p \in Patterns, h \in HandlerKinds, f \in BOOLEAN :
           RegisterHandler(p, h, f)
    \/ \E p \in Patterns, f \in BOOLEAN : UnregisterHandler(p, f)
    \/ \E c \in Clients, t \in Topics : OnMessage(c, t)

InitDispatch == IdleConn /\ IdleMatch /\ InitPool /\ IdleStore /\ IdleStatic /\ IdleUpd /\ IdleVal

SpecDispatch == InitDispatch /\ [][NextDispatch]_vars

(***************************************************************************)
(* SpecSubs: the life cycle with handlers registered and unregistered only  *)
(* while a transport is in place.                                           *)
(***************************************************************************)
RegisterOnTransport(p) ==
    /\ client # 0
    /\ RegisterHandler(p, "returns", FALSE)

UnregisterOnTransport(p) ==
    /\ client # 0
    /\ UnregisterHandler(p, FALSE)

NextSubs ==
    \/ Connect(MaxDispatchClients)
    \/ Disconnect
    \/ \E t \in Clients : ReconnectTimerFire(t, MaxDispatchClients)
    \/ \E t \in Clients : ConnTimeoutFire(t)
    \/ \E c \in Clients : OnConnect(c)
    \/ \E c \in Clients : OnClose(c)
    \/ \E c \in Clients : OnError(c)
    \/ \E c \in Clients : TransportDrop(c)
    \/ \E c \in Clients : OnEnd(c)
    \/ \E p \in Patterns : RegisterOnTransport(p)
    \/ \E p \in Patterns : UnregisterOnTransport(p)

InitSubs == IdleConn /\ IdleMatch /\ InitPool /\ IdleStore /\ IdleStatic /\ IdleUpd /\ IdleVal

SpecSubs == InitSubs /\ [][NextSubs]_vars

(***************************************************************************)
(* SpecClear: the life cycle with handlers registered and messages         *)
(* delivered around disconnect().                                          *)
(***************************************************************************)
NextClear ==
    \/ Connect(MaxDispatchClients)
    \/ Disconnect
    \/ \E t \in Clients : ReconnectTimerFire(t, MaxDispatchClients)
    \/ \E t \in Clients : ConnTimeoutFire(t)
    \/ \E c \in Clients : OnConnect(c)
    \/ \E c \in Clients : OnClose(c)
    \/ \E c \in Clients : OnError(c)
    \/ \E c \in Clients : TransportDrop(c)
    \/ \E c \in Clients : OnEnd(c)
    \/ RegisterHandler(StrXY, "returns", FALSE)
    \/ \E c \in Clients : OnMessage(c, StrXY)

InitClear == IdleConn /\ IdleMatch /\ InitPool /\ IdleStore /\ IdleStatic /\ IdleUpd /\ IdleVal

SpecClear == InitClear /\ [][NextClear]_vars

(***************************************************************************)
(* SpecPublish: the life cycle with publish().                             *)
(***************************************************************************)
NextPublish ==
    \/ Connect(MaxDispatchClients)
    \/ Disconnect
    \/ \E t \in Clients : ReconnectTimerFire(t, MaxDispatchClients)
    \/ \E t \in Clients : ConnTimeoutFire(t)
    \/ \E c \in Clients : OnConnect(c)
    \/ \E c \in Clients : OnClose(c)
    \/ \E c \in Clients : OnError(c)
    \/ \E c \in Clients : TransportDrop(c)
    \/ \E c \in Clients : OnEnd(c)
    \/ \E f \in BOOLEAN : Publish(f)

InitPublish == IdleConn /\ IdleMatch /\ InitPool /\ IdleStore /\ IdleStatic /\ IdleUpd /\ IdleVal

SpecPublish == InitPublish /\ [][NextPublish]_vars

(***************************************************************************)
(* SpecCallbacks: the life cycle with lifecycle callbacks that may raise.  *)
(***************************************************************************)
NextCallbacks ==
    \/ Connect(MaxDispatchClients)
    \/ Disconnect
    \/ \E t \in Clients : ReconnectTimerFire(t, MaxDispatchClients)
    \/ \E t \in Clients : ConnTimeoutFire(t)
    \/ \E c \in Clients : OnConnect(c)
    \/ \E c \in Clients : OnClose(c)
    \/ \E c \in Clients : OnError(c)
    \/ \E c \in Clients : TransportDrop(c)
    \/ \E c \in Clients : OnEnd(c)
    \/ ConnectRaising
    \/ \E t \in Clients : ReconnectTimerFireRaising(t)
    \/ \E t \in Clients : ConnTimeoutFireRaising(t)
    \/ \E c \in Clients : OnConnectRaising(c)
    \/ \E c \in Clients : OnCloseRaising(c)
    \/ \E c \in Clients : OnErrorRaising(c)
    \/ \E c \in Clients : OnEndRaising(c)

InitCallbacks == IdleConn /\ IdleMatch /\ InitPool /\ IdleStore /\ IdleStatic /\ IdleUpd /\ IdleVal

SpecCallbacks == InitCallbacks /\ [][NextCallbacks]_vars

(***************************************************************************)
(* Claims about the connection life cycle (SpecConn).                      *)
(***************************************************************************)

\* C1: once disconnect() has returned and until the caller calls connect()
\* again, no reconnect timer is pending (so none fires and the manager does
\* not call connect()).  The flag is set by disconnect() and cleared only
\* by connect().
C1_NoReconnectAfterDisconnect ==
    isExplicitlyDisconnected => pendingReconn = {}

\* C2: consecutive disconnect() calls act on the same transport, and that
\* transport's end callbacks deliver at most one 'disconnected' notification.
C2_AtMostOneDisconnected == lastNote.n <= 1

RECURSIVE Pow2(_)
Pow2(n) == IF n = 0 THEN 1 ELSE 2 * Pow2(n - 1)

\* C3: the k-th reconnect timer scheduled since the last successful connect
\* has delay min(b * 2^(k-1), m); stated for configurations with b <= m.
C3_KthDelay ==
    (lastSched.seen /\ reconnectInterval <= maxReconnectInterval)
        => lastSched.delay = Min(reconnectInterval * Pow2(lastSched.k - 1),
                                 maxReconnectInterval)

\* C4: the reconnect timer scheduled by the close of a transport that had
\* connected uses delay b.
C4_DelayAfterSuccessIsBase ==
    (lastSched.seen /\ lastSched.live) => lastSched.delay = reconnectInterval

\* C5: at most one reconnect timer and at most one connect-timeout timer are
\* pending.
C5_AtMostOneTimerEach ==
    /\ Cardinality(pendingReconn) <= 1
    /\ Cardinality(pendingConn) <= 1

\* C6: on a message, the handler of every registered pattern that matches
\* the topic is invoked exactly once and no other handler is invoked.
Count(seq, x) == Cardinality({i \in 1..Len(seq) : seq[i] = x})

C6_AllMatchingHandlersOnce ==
    lastMsg.seen =>
        \A i \in 1..Len(lastMsg.registry) :
            Count(lastMsg.invoked, lastMsg.registry[i].pattern)
                = IF matchTopic(lastMsg.registry[i].pattern, lastMsg.topic)
                  THEN 1 ELSE 0

\* C21: a 'disconnected' notification is made only by a step that runs an
\* end callback disconnect() handed to a transport, and that transport is
\* terminated; the step of disconnect() that hands the callback over makes no
\* notification, and neither does a 'close' event; disconnect() with no
\* transport completes (the flag is set) with no callback handed over and no
\* notification.
C21_DisconnectedOnlyAfterEnd ==
    [][/\ lastNote' # lastNote =>
             \E c \in Clients :
                 /\ endCb[c] > 0
                 /\ endCb' = [endCb EXCEPT ![c] = @ - 1]
                 /\ tstate[c] \in Ending \cup {"closed"}
                 /\ lastNote'.client = c
       /\ (\E c \in Clients : endCb'[c] > endCb[c]) => lastNote' = lastNote
       /\ (\E c \in Clients : tstate[c] \in Ending /\ tstate'[c] = "closed")
             => lastNote' = lastNote
       /\ (client = 0 /\ ~isExplicitlyDisconnected /\ isExplicitlyDisconnected')
             => (endCb' = endCb /\ lastNote' = lastNote /\ client' = 0)]_vars

C21_Witness ==
    /\ lastNote.n = 1
    /\ client = 0
    /\ isExplicitlyDisconnected
    /\ tstate[lastNote.client] = "closed"

C21_WitnessNoTransport ==
    /\ nextClient = 0
    /\ isExplicitlyDisconnected
    /\ lastNote = NoNote

\* C23: a step that makes a new transport leaves no earlier transport live,
\* and the 'close' event of a transport that connect() tore down schedules
\* no reconnect timer (so that none fires later and tears down the new
\* transport).
C23_ConnectTearsDownPrior ==
    [][/\ nextClient' # nextClient =>
             \A c \in Clients : tstate[c] \in Live => tstate'[c] \notin Live
       /\ \A c \in Clients :
             (tstate[c] \in Replaced /\ tstate'[c] = "closed")
                 => pendingReconn' = pendingReconn]_vars

\* C24: while the current transport is connected no connect-timeout timer
\* is pending, and a connect-timeout timer of an earlier attempt (one that is
\* not the current transport's) never fires while a later transport is
\* current, and so never terminates it.
C24_ConnectTimeoutOwnAttempt ==
    /\ []((client # 0 /\ tstate[client] = "connected") => pendingConn = {})
    /\ [][\A t \in Clients :
             (t \in pendingConn /\ t \notin pendingConn' /\ client # 0)
                 => t = client]_vars

\* C25: in every reachable state, for every configuration of positive
\* intervals, base <= current <= max.
C25_IntervalWithinBounds ==
    /\ reconnectInterval <= currentReconnectInterval
    /\ currentReconnectInterval <= maxReconnectInterval

\* C26: when a connect-timeout timer fires while its transport is still
\* connecting, 'timedout' is reported and that transport is terminated; the
\* 'close' event of a terminated transport, when not explicitly
\* disconnected, schedules one reconnect timer, with the current interval.
C26_TimeoutTerminatesAndReconnects ==
    /\ [](lastEv.outcome = "firedBeforeConnect"
             => (lastEv.name = "timeout" /\ tstate[lastEv.id] \in Ending))
    /\ [][\A c \in Clients :
             (tstate[c] \in Ending /\ tstate'[c] = "closed"
                 /\ ~isExplicitlyDisconnected)
                 => /\ lastSched'.seen
                    /\ lastSched'.delay = currentReconnectInterval
                    /\ pendingReconn' = pendingReconn \cup {c}
                    /\ c \notin pendingReconn]_vars

\* C27: the step in which disconnect() runs and returns leaves the flag
\* set, both timer handles null, the timers they held no longer pending and
\* the registry empty, whatever the state before; a message delivered while
\* the registry is empty invokes no handler.
C27_DisconnectClearsEverything ==
    [][/\ lastEv'.name = "disconnect" =>
             /\ lastEv'.outcome = "returned"
             /\ isExplicitlyDisconnected'
             /\ reconnectTimeoutId' = 0
             /\ connectionTimeoutId' = 0
             /\ reconnectTimeoutId \notin pendingReconn'
             /\ connectionTimeoutId \notin pendingConn'
             /\ eventHandlers' = <<>>
       /\ (lastMsg'.seen /\ eventHandlers = <<>>) => lastMsg'.invoked = <<>>]_vars

C27_Witness ==
    /\ lastEv.name = "disconnect"
    /\ nextClient = 2
    /\ tstate[1] = "closed"
    /\ tstate[2] \in Ending
    /\ pendingReconn = {}
    /\ pendingConn = {}

\* the registry reg maps pattern p to handler h, in one entry
MapsTo(reg, p, h) ==
    /\ \E i \in 1..Len(reg) : reg[i] = [pattern |-> p, handler |-> h]
    /\ Cardinality({i \in 1..Len(reg) : reg[i].pattern = p}) = 1

\* C30: registerHandler and unregisterHandler never raise because of a
\* subscribe/unsubscribe failure (with a transport in place they return
\* whatever the transport reports); when registerHandler raises the registry
\* is unchanged, when it returns the registry maps the pattern to the
\* handler, and when unregisterHandler returns the pattern has no entry
C30_RegistryConsistentWithOutcome ==
    [][ /\ (lastEv'.name = "registerHandler" =>
              /\ (client # 0 => lastEv'.outcome # "raised")
              /\ (lastEv'.outcome = "raised" =>
                     eventHandlers' = eventHandlers)
              /\ (lastEv'.outcome # "raised" =>
                     MapsTo(eventHandlers', lastEv'.pattern,
                            lastEv'.handler)))
        /\ (lastEv'.name = "unregisterHandler" =>
              /\ (client # 0 => lastEv'.outcome # "raised")
              /\ (lastEv'.outcome # "raised" =>
                     \A i \in 1..Len(eventHandlers') :
                         eventHandlers'[i].pattern # lastEv'.pattern)) ]_vars

\* the parts of C30 that do not depend on the order of the registry write
\* and the subscribe: no raise with a transport in place, and the registry
\* after a normal return
C30_ReturnedPart ==
    [][ /\ (lastEv'.name = "registerHandler" =>
              /\ (client # 0 => lastEv'.outcome # "raised")
              /\ (lastEv'.outcome # "raised" =>
                     MapsTo(eventHandlers', lastEv'.pattern,
                            lastEv'.handler)))
        /\ (lastEv'.name = "unregisterHandler" =>
              /\ (client # 0 => lastEv'.outcome # "raised")
              /\ (lastEv'.outcome # "raised" =>
                     \A i \in 1..Len(eventHandlers') :
                         eventHandlers'[i].pattern # lastEv'.pattern)) ]_vars

\* the patterns of the registry reg
RegistryPatterns(reg) == {reg[i].pattern : i \in 1..Len(reg)}

\* C31: whenever the wrapper is Connected, every pattern of the handler
\* registry has had a subscribe request issued on the current transport
C31_RegistrySubscribedWhenConnected ==
    (client # 0 /\ tstate[client] = "connected") =>
        RegistryPatterns(eventHandlers) \subseteq subscribed

\* C32: while one message is dispatched, a handler that raises does not keep
\* the handlers of the other matching patterns from being invoked for that
\* message, and the exception does not leave the 'message' handler
C32_RaisingHandlerIsolated ==
    (lastMsg.seen
       /\ \E i \in 1..Len(lastMsg.registry) :
             /\ lastMsg.registry[i].handler = "throws"
             /\ matchTopic(lastMsg.registry[i].pattern, lastMsg.topic)) =>
        /\ \A j \in 1..Len(lastMsg.registry) :
              matchTopic(lastMsg.registry[j].pattern, lastMsg.topic) =>
                  \E k \in 1..Len(lastMsg.invoked) :
                      lastMsg.invoked[k] = lastMsg.registry[j].pattern
        /\ lastEv.outcome \notin {"raised", "callbackRaised"}

\* the part of C32 about the exception alone: nothing raised leaves the
\* 'message' handler
C32_NothingEscapes ==
    lastMsg.seen => lastEv.outcome \notin {"raised", "callbackRaised"}

(***************************************************************************)
(* Claims about publish() (SpecPublish) and about callbacks that raise      *)
(* (SpecCallbacks).                                                        *)
(***************************************************************************)

C18_WitnessLogged ==
    /\ lastEv.name = "publish"
    /\ lastEv.outcome = "logged"

\* C19: when a lifecycle callback raises, the transition of the event that
\* invoked it still completes: connect() has made a transport and started
\* its connect-timeout timer, the timeout has terminated the transport, a
\* close has scheduled the reconnect unless explicitly disconnected, and the
\* reconnect timer has called connect().
C19_RaisingCallbackKeepsTransition ==
    lastEv.outcome = "callbackRaised" =>
        /\ lastEv.name = "connect" =>
              /\ client # 0
              /\ tstate[client] = "connecting"
              /\ connectionTimeoutId = client
              /\ client \in pendingConn
        /\ lastEv.name = "timeout" =>
              (client # 0 => tstate[client] \notin Live)
        /\ (lastEv.name = "close" /\ ~isExplicitlyDisconnected) =>
              lastEv.id \in pendingReconn
        /\ lastEv.name = "reconnectTimer" =>
              (client # 0 /\ tstate[client] = "connecting")

(***************************************************************************)
(* FairConn: the life cycle under the scheduling of the event loop: a      *)
(* timer that stays pending fires, a terminated transport delivers its     *)
(* 'close' event, and a pending end callback is invoked.  The caller's     *)
(* calls and the broker's behaviour are not forced.                        *)
(***************************************************************************)
NextFair ==
    \/ Connect(MaxDispatchClients)
    \/ Disconnect
    \/ \E t \in Clients : ReconnectTimerFire(t, MaxDispatchClients)
    \/ \E t \in Clients : ConnTimeoutFire(t)
    \/ \E c \in Clients : OnConnect(c)
    \/ \E c \in Clients : OnClose(c)
    \/ \E c \in Clients : OnError(c)
    \/ \E c \in Clients : TransportDrop(c)
    \/ \E c \in Clients : OnEnd(c)

InitFair == IdleConn /\ IdleMatch /\ InitPool /\ IdleStore /\ IdleStatic /\ IdleUpd /\ IdleVal

EventLoopFairness ==
    /\ \A t \in Clients : WF_vars(ReconnectTimerFire(t, MaxDispatchClients))
    /\ \A t \in Clients : WF_vars(ConnTimeoutFire(t))
    /\ \A c \in Clients : WF_vars(OnClose(c))
    /\ \A c \in Clients : WF_vars(OnEnd(c))

FairConn == InitFair /\ [][NextFair]_vars /\ EventLoopFairness

\* the same life cycle with no scheduling assumed
SpecLifecycle == InitFair /\ [][NextFair]_vars

\* C20: while not explicitly disconnected, (a) a transport that was lost
\* (terminated by a failure, the connect-timeout or a close) leads to a new
\* connection attempt through the reconnect timer, and (b) a connection
\* attempt whose connect-timeout timer is pending does not stay in progress
\* for ever: it connects or it is terminated.  (The bound on the number of
\* transports ends the obligation of (a).)
C20_FailureLeadsToReconnect ==
    /\ \A c \in Clients, n \in 0..MaxClients :
          (tstate[c] \in Ending /\ ~isExplicitlyDisconnected /\ nextClient = n)
              ~> (\/ nextClient > n
                  \/ isExplicitlyDisconnected
                  \/ nextClient >= MaxDispatchClients)
    /\ \A c \in Clients :
          (tstate[c] = "connecting" /\ c \in pendingConn
              /\ ~isExplicitlyDisconnected)
              ~> (tstate[c] # "connecting" \/ isExplicitlyDisconnected)

(***************************************************************************)
(* SpecMatch: matchTopic applied to every pattern and topic of at most     *)
(* MaxSegs segments over the segment alphabet Segs.                        *)
(***************************************************************************)
Segs == {<<>>, <<"a">>, <<"b">>, <<"+">>, <<"#">>}

SegLists == UNION {[1..n -> Segs] : n \in 1..MaxSegs}

Unset == [done |-> FALSE, value |-> FALSE]

InitMatch ==
    /\ \E ps \in SegLists, ts \in SegLists :
          /\ mtPattern = Join(ps)
          /\ mtTopic = Join(ts)
    /\ mtResult = Unset

ApplyMatch ==
    /\ ~mtResult.done
    /\ mtResult' = [done |-> TRUE, value |-> matchTopic(mtPattern, mtTopic)]
    /\ UNCHANGED <<mtPattern, mtTopic, connVars, poolVars, storeVars,
                   staticVars, vstate, upd>>

NextMatch == ApplyMatch

InitMatcher == IdleConn /\ InitMatch /\ InitPool /\ IdleStore /\ IdleStatic /\ IdleUpd /\ IdleVal

SpecMatch == InitMatcher /\ [][NextMatch]_vars

IsHash(seg) == seg = <<"#">>
IsPlus(seg) == seg = <<"+">>

\* one pattern segment against one existing topic segment, as the claims
\* state it: literal equality, or '+' against a non-empty segment
SegMatches(p, t) == p = t \/ (IsPlus(p) /\ t # <<>>)

PatSegs == Split(mtPattern)
TopSegs == Split(mtTopic)

HashOnlyLast ==
    /\ IsHash(PatSegs[Len(PatSegs)])
    /\ \A i \in 1..(Len(PatSegs) - 1) : ~IsHash(PatSegs[i])
NoHash == \A i \in 1..Len(PatSegs) : ~IsHash(PatSegs[i])
HashNotLast == \E i \in 1..(Len(PatSegs) - 1) : IsHash(PatSegs[i])

\* C7: a pattern ending in '#' (and with no earlier '#') matches iff every
\* segment before the '#' matches the topic segment at the same position,
\* however many topic segments follow, including none.
C7_TrailingHash ==
    (mtResult.done /\ HashOnlyLast) =>
        (mtResult.value <=>
            \A i \in 1..(Len(PatSegs) - 1) :
                i <= Len(TopSegs) /\ SegMatches(PatSegs[i], TopSegs[i]))

C7_Witness ==
    /\ mtResult.done /\ mtResult.value
    /\ mtPattern = <<"a", "/", "#">>
    /\ mtTopic = <<"a">>

\* C8: a pattern without '#' matches iff pattern and topic have the same
\* number of segments and every position matches.
C8_NoHash ==
    (mtResult.done /\ NoHash) =>
        (mtResult.value <=>
            /\ Len(PatSegs) = Len(TopSegs)
            /\ \A i \in 1..Len(PatSegs) : SegMatches(PatSegs[i], TopSegs[i]))

C8_Witness ==
    /\ mtResult.done /\ ~mtResult.value
    /\ mtPattern = <<"a", "/", "+">>
    /\ mtTopic = <<"a", "/", "b", "/", "b">>

\* C9: a pattern with '#' anywhere but in its last segment matches nothing.
C9_HashNotLast == (mtResult.done /\ HashNotLast) => ~mtResult.value

C9_Witness ==
    /\ mtResult.done
    /\ mtPattern = <<"a", "/", "#", "/", "b">>
    /\ mtTopic = <<"a", "/", "b", "/", "b">>

(***************************************************************************)
(* RedisService.  Every public operation is an async function; a call      *)
(* runs from one await to the next as one action.  Calls is the set of     *)
(* calls that may be in flight together; a settled call's slot is taken    *)
(* again by the next call.  A pool object is "open" until drain() is       *)
(* called on it and "draining" from then on.                               *)
(***************************************************************************)

\* initPool() without the tests of this.pool and this.initPromise
initPoolUnguarded ==
    /\ nPools < MaxPools
    /\ nPools' = nPools + 1
    /\ pool' = nPools + 1
    /\ initPromise' = nPools + 1
    /\ pstate' = [pstate EXCEPT ![nPools + 1] = "open"]

\* initPool() up to its await: the pool is made inside the memoized promise
initPool ==
    IF pool # 0
    THEN UNCHANGED <<pool, initPromise, nPools, pstate>>
    ELSE IF initPromise = 0
    THEN /\ nPools < MaxPools
         /\ nPools' = nPools + 1
         /\ pool' = nPools + 1
         /\ initPromise' = nPools + 1
         /\ pstate' = [pstate EXCEPT ![nPools + 1] = "open"]
    ELSE UNCHANGED <<pool, initPromise, nPools, pstate>>

\* a public operation o is called: withClient runs up to
\* 'await this.initPool()'
Begin(c, o) ==
    /\ pc[c] = "idle"
    /\ initPool
    /\ made' = [made EXCEPT ![c] = IF pool' # pool THEN pool' ELSE 0]
    /\ pc' = [pc EXCEPT ![c] = "awaitInit"]
    /\ op' = [op EXCEPT ![c] = o]
    /\ UNCHANGED <<borrowed, callPool, actionOutcome, callResult, acquired,
                   released, connVars, matchVars, staticVars, vstate, upd>>

\* useRawClient(fn): withClient with an action of the caller
WithClientStart(c) ==
    /\ Begin(c, "useRawClient")
    /\ UNCHANGED storeVars

\* withClient: this.pool!.acquire() -- a null pool raises, a draining pool
\* rejects the request, an open pool queues it
WithClientAcquire(c) ==
    /\ pc[c] = "awaitInit"
    /\ IF pool = 0
       THEN /\ pc' = [pc EXCEPT ![c] = "done"]
            /\ callResult' = [callResult EXCEPT ![c] = "typeError"]
            /\ UNCHANGED callPool
       ELSE IF pstate[pool] = "draining"
       THEN /\ pc' = [pc EXCEPT ![c] = "done"]
            /\ callResult' = [callResult EXCEPT ![c] = "rejected"]
            /\ UNCHANGED callPool
       ELSE /\ pc' = [pc EXCEPT ![c] = "acquiring"]
            /\ callPool' = [callPool EXCEPT ![c] = pool]
            /\ UNCHANGED callResult
    /\ UNCHANGED <<pool, initPromise, nPools, pstate, borrowed,
                   actionOutcome, acquired, released, op, made, connVars,
                   matchVars, staticVars, vstate, upd, storeVars>>

\* the pool hands the call a validated resource: at most max are borrowed
PoolGrants(c) ==
    /\ pc[c] = "acquiring"
    /\ borrowed[callPool[c]] < PoolMax
    /\ borrowed' = [borrowed EXCEPT ![callPool[c]] = @ + 1]
    /\ acquired' = [acquired EXCEPT ![c] = @ + 1]
    /\ pc' = [pc EXCEPT ![c] = "action"]
    /\ UNCHANGED <<pool, initPromise, nPools, pstate, callPool,
                   actionOutcome, callResult, released, op, made, connVars,
                   matchVars, staticVars, vstate, upd, storeVars>>

\* this.pool!.release(client) in the finally block, for a resource taken
\* from pool from: a null this.pool raises; a pool the resource is not part
\* of refuses it in a promise nobody awaits
ReleaseEffect(c, from, outcome) ==
    IF pool = 0
    THEN /\ callResult' = [callResult EXCEPT ![c] = "typeError"]
         /\ UNCHANGED <<borrowed, released>>
    ELSE IF pool # from
    THEN /\ callResult' = [callResult EXCEPT ![c] = outcome]
         /\ UNCHANGED <<borrowed, released>>
    ELSE /\ callResult' = [callResult EXCEPT ![c] = outcome]
         /\ borrowed' = [borrowed EXCEPT ![from] = @ - 1]
         /\ released' = [released EXCEPT ![c] = @ + 1]

\* withClient once its action has settled: catch (log, rethrow) and finally
Finally(c, outcome) ==
    /\ actionOutcome' = [actionOutcome EXCEPT ![c] = outcome]
    /\ ReleaseEffect(c, callPool[c], outcome)
    /\ pc' = [pc EXCEPT ![c] = "done"]
    /\ UNCHANGED <<pool, initPromise, nPools, pstate, callPool, acquired,
                   op, made, connVars, matchVars, staticVars, vstate, upd>>

\* the caller's action of useRawClient settles
WithClientSettle(c, outcome) ==
    /\ pc[c] = "action"
    /\ op[c] = "useRawClient"
    /\ Finally(c, outcome)
    /\ UNCHANGED storeVars

\* shutdown(): if (this.pool) await this.pool.drain()
ShutdownStart(c) ==
    /\ pc[c] = "idle"
    /\ op' = [op EXCEPT ![c] = "shutdown"]
    /\ IF pool = 0
       THEN /\ pc' = [pc EXCEPT ![c] = "done"]
            /\ callResult' = [callResult EXCEPT ![c] = "returned"]
            /\ UNCHANGED <<pstate, callPool>>
       ELSE /\ pc' = [pc EXCEPT ![c] = "draining"]
            /\ pstate' = [pstate EXCEPT ![pool] = "draining"]
            /\ callPool' = [callPool EXCEPT ![c] = pool]
            /\ UNCHANGED callResult
    /\ UNCHANGED <<pool, initPromise, nPools, borrowed, actionOutcome,
                   acquired, released, made, connVars, matchVars, staticVars, vstate, upd, storeVars>>

\* drain() resolves once every queued request is served and every borrowed
\* resource is back; shutdown() goes on to await this.pool.clear()
ShutdownDrained(c) ==
    /\ pc[c] = "draining"
    /\ borrowed[callPool[c]] = 0
    /\ \A d \in Calls : ~(pc[d] = "acquiring" /\ callPool[d] = callPool[c])
    /\ IF pool = 0
       THEN /\ pc' = [pc EXCEPT ![c] = "done"]
            /\ callResult' = [callResult EXCEPT ![c] = "typeError"]
            /\ UNCHANGED callPool
       ELSE /\ pc' = [pc EXCEPT ![c] = "clearing"]
            /\ callPool' = [callPool EXCEPT ![c] = pool]
            /\ UNCHANGED callResult
    /\ UNCHANGED <<pool, initPromise, nPools, pstate, borrowed,
                   actionOutcome, acquired, released, op, made, connVars,
                   matchVars, staticVars, vstate, upd, storeVars>>

\* clear() resolves; this.pool = null; this.initPromise = null
ShutdownCleared(c) ==
    /\ pc[c] = "clearing"
    /\ pool' = 0
    /\ initPromise' = 0
    /\ pc' = [pc EXCEPT ![c] = "done"]
    /\ callResult' = [callResult EXCEPT ![c] = "returned"]
    /\ UNCHANGED <<nPools, pstate, borrowed, callPool, actionOutcome,
                   acquired, released, op, made, connVars, matchVars, staticVars, vstate, upd,
                   storeVars>>

\* the caller has seen the call settle; the slot serves the next call
CallReturns(c) ==
    /\ pc[c] = "done"
    /\ pc' = [pc EXCEPT ![c] = "idle"]
    /\ callPool' = [callPool EXCEPT ![c] = 0]
    /\ actionOutcome' = [actionOutcome EXCEPT ![c] = "none"]
    /\ callResult' = [callResult EXCEPT ![c] = "none"]
    /\ acquired' = [acquired EXCEPT ![c] = 0]
    /\ released' = [released EXCEPT ![c] = 0]
    /\ op' = [op EXCEPT ![c] = "none"]
    /\ made' = [made EXCEPT ![c] = 0]
    /\ loc' = [loc EXCEPT ![c] = NoLoc]
    /\ ret' = [ret EXCEPT ![c] = NoRet]
    /\ UNCHANGED <<pool, initPromise, nPools, pstate, borrowed, store, pages,
                   connVars, matchVars, staticVars, vstate, upd>>

NextPool ==
    \/ \E c \in Calls : WithClientStart(c)
    \/ \E c \in Calls : WithClientAcquire(c)
    \/ \E c \in Calls : PoolGrants(c)
    \/ \E c \in Calls, o \in {"returned", "raised"} : WithClientSettle(c, o)
    \/ \E c \in Calls : ShutdownStart(c)
    \/ \E c \in Calls : ShutdownDrained(c)
    \/ \E c \in Calls : ShutdownCleared(c)
    \/ \E c \in Calls : CallReturns(c)

InitService == IdleConn /\ IdleMatch /\ InitPool /\ IdleStore /\ IdleStatic /\ IdleUpd /\ IdleVal

SpecPool == InitService /\ [][NextPool]_vars

\* C10: a withClient call that has settled has given back, exactly once,
\* every resource it was handed; when its action raised, the call rejects
\* with that error; and once every call has settled no pool has a borrowed
\* resource.
C10_ReleasedExactlyOnce ==
    /\ \A c \in Calls :
          pc[c] = "done" =>
              /\ released[c] = acquired[c]
              /\ actionOutcome[c] = "raised" => callResult[c] = "raised"
    /\ (\A c \in Calls : pc[c] \in {"idle", "done"}) =>
          \A p \in Pools : borrowed[p] = 0

(***************************************************************************)
(* SpecInit: the first use of the service by a few concurrent calls, with  *)
(* shutdown() among them.                                                  *)
(***************************************************************************)
\* C28: the step that ends an operation's action releases its resource
\* while this.pool is the pool the resource was acquired from (never null,
\* never another pool), and the step of shutdown() that resets this.pool
\* finds no resource of that pool borrowed and no operation still running
\* on it.
C28_ReleaseBeforePoolReset ==
    [][/\ \A c \in Calls :
             (pc[c] = "action" /\ pc'[c] = "done")
                 => (pool # 0 /\ pool = callPool[c])
       /\ (pool # 0 /\ pool' = 0)
             => /\ borrowed[pool] = 0
                /\ \A c \in Calls :
                      ~(pc[c] = "action" /\ callPool[c] = pool)]_vars

InitCalls == 1..MaxInitCalls

NextInit ==
    \/ \E c \in InitCalls : WithClientStart(c)
    \/ \E c \in InitCalls : WithClientAcquire(c)
    \/ \E c \in InitCalls : PoolGrants(c)
    \/ \E c \in InitCalls, o \in {"returned", "raised"} : WithClientSettle(c, o)
    \/ \E c \in InitCalls : ShutdownStart(c)
    \/ \E c \in InitCalls : ShutdownDrained(c)
    \/ \E c \in InitCalls : ShutdownCleared(c)
    \/ \E c \in InitCalls : CallReturns(c)

InitFirstUse == IdleConn /\ IdleMatch /\ InitPool /\ IdleStore /\ IdleStatic /\ IdleUpd /\ IdleVal

SpecInit == InitFirstUse /\ [][NextInit]_vars

\* C11: while no shutdown has been requested, the operations in flight have
\* constructed exactly one pool between them, whichever of them came first,
\* and every one of them asks that pool for its resource.
C11_SinglePoolInit ==
    (\A p \in Pools : pstate[p] # "draining") =>
        /\ nPools <= 1
        /\ \A c \in Calls :
              /\ pc[c] = "awaitInit" => pool = 1
              /\ pc[c] \in {"acquiring", "action"} => callPool[c] = 1
              /\ made[c] # 0 => made[c] = 1

C11_Witness ==
    /\ \A p \in Pools : pstate[p] # "draining"
    /\ \E c, d \in Calls :
          /\ c # d
          /\ made[c] = 1 /\ made[d] = 0
          /\ pc[c] = "action" /\ pc[d] = "action"
          /\ callPool[c] = 1 /\ callPool[d] = 1

\* C12: every shutdown() call completes without raising; the pool a
\* shutdown() clears is the one it drained, with nothing borrowed; and a pool
\* that no shutdown() has begun to drain is never discarded: it stays the
\* current pool.
C12_ShutdownIdempotent ==
    /\ \A c \in Calls :
          (op[c] = "shutdown" /\ pc[c] = "done") => callResult[c] = "returned"
    /\ \A c \in Calls :
          pc[c] = "clearing" =>
              /\ pstate[callPool[c]] = "draining"
              /\ borrowed[callPool[c]] = 0
    /\ \A p \in Pools : pstate[p] = "open" => pool = p

\* C13: a shutdown() that finds no pool returns at once and makes none;
\* pool and initPromise are null together, so that an operation that finds
\* no pool constructs a fresh one; and that operation succeeds (it is handed
\* a resource of the fresh pool and gives it back) unless a shutdown() has
\* begun to drain the fresh pool.
C13_ShutdownThenLazyInit ==
    /\ \A c \in Calls :
          (op[c] = "shutdown" /\ pc[c] = "done" /\ callPool[c] = 0) =>
              (callResult[c] = "returned" /\ made[c] = 0)
    /\ pool = 0 <=> initPromise = 0
    /\ \A c \in Calls :
          (made[c] # 0 /\ pstate[made[c]] = "open") =>
              /\ pc[c] = "awaitInit" => pool = made[c]
              /\ pc[c] = "done" =>
                    /\ callResult[c] \in {"returned", "raised"}
                    /\ released[c] = acquired[c]

(***************************************************************************)
(* The data operations.  A payload is a text (a sequence of characters);   *)
(* JSON is modelled for the numbers written with the digits 0 and 1.       *)
(***************************************************************************)
StoreCalls == 1..MaxStoreCalls

IsDigit(ch) == ch \in {"0", "1"}

RECURSIVE DigitsValue(_, _, _)
DigitsValue(t, i, n) ==
    IF i > Len(t) THEN n
    ELSE DigitsValue(t, i + 1, 10 * n + (IF t[i] = "1" THEN 1 ELSE 0))

\* JSON.parse: ok is FALSE when it throws
JSONParse(t) ==
    IF /\ Len(t) > 0
       /\ \A i \in 1..Len(t) : IsDigit(t[i])
       /\ (Len(t) > 1 => t[1] # "0")
    THEN [ok |-> TRUE, value |-> [isNull |-> FALSE, v |-> DigitsValue(t, 1, 0)]]
    ELSE [ok |-> FALSE, value |-> JSONNull]

\* JSON.stringify of the numbers 0 and 1
JSONStringify(v) == IF v = 0 THEN <<"0">> ELSE <<"1">>

\* client.exists(key) answering 1 for every key
KeyExistsAlways(st, k) == TRUE

\* client.exists(key) as a truth value
KeyExists(st, k) == st[k] # Null

\* the action of get() with a JSON.parse failure left to propagate
getActionRethrows(val) ==
    IF val = Null \/ val = <<>>
    THEN [outcome |-> "returned", value |-> JSONNull]
    ELSE IF JSONParse(val).ok
    THEN [outcome |-> "returned", value |-> JSONParse(val).value]
    ELSE [outcome |-> "raised", value |-> JSONNull]

\* the action of get(): null for a falsy reply, the parsed value, or null
\* when JSON.parse throws (the error is logged)
getAction(val) ==
    IF val = Null \/ val = <<>>
    THEN [outcome |-> "returned", value |-> JSONNull]
    ELSE IF JSONParse(val).ok
    THEN [outcome |-> "returned", value |-> JSONParse(val).value]
    ELSE [outcome |-> "returned", value |-> JSONNull]

Called(c, k, v) == [loc EXCEPT ![c] = [NoLoc EXCEPT !.key = k, !.value = v]]

\* set(key, value)
Set(c, k, v) ==
    /\ Begin(c, "set")
    /\ loc' = Called(c, k, v)
    /\ UNCHANGED <<store, pages, ret>>

\* the action of set(): client.set(key, JSON.stringify(value))
SetWrite(c) ==
    /\ pc[c] = "action"
    /\ op[c] = "set"
    /\ store' = [store EXCEPT ![loc[c].key] = JSONStringify(loc[c].value)]
    /\ Finally(c, "returned")
    /\ UNCHANGED <<pages, loc, ret>>

\* get(key)
Get(c, k) ==
    /\ Begin(c, "get")
    /\ loc' = Called(c, k, 0)
    /\ UNCHANGED <<store, pages, ret>>

GetRead(c) ==
    /\ pc[c] = "action"
    /\ op[c] = "get"
    /\ LET r == getAction(store[loc[c].key])
       IN  /\ Finally(c, r.outcome)
           /\ ret' = [ret EXCEPT ![c].value = r.value]
    /\ UNCHANGED <<store, pages, loc>>

\* update(key, value)
Update(c, k, v) ==
    /\ Begin(c, "update")
    /\ loc' = Called(c, k, v)
    /\ UNCHANGED <<store, pages, ret>>

\* the action of update() after client.exists: it throws for an absent key,
\* and otherwise calls this.set, whose withClient awaits initPool()
UpdateCheck(c) ==
    /\ pc[c] = "action"
    /\ op[c] = "update"
    /\ IF ~KeyExists(store, loc[c].key)
       THEN Finally(c, "keyNotFound")
       ELSE /\ initPool
            /\ pc' = [pc EXCEPT ![c] = "innerAwaitInit"]
            /\ UNCHANGED <<borrowed, callPool, actionOutcome, callResult,
                           acquired, released, op, made, connVars, matchVars, staticVars, vstate, upd>>
    /\ UNCHANGED storeVars

\* the inner withClient of update(): this.pool!.acquire()
InnerAcquire(c) ==
    /\ pc[c] = "innerAwaitInit"
    /\ IF pool = 0 \/ pstate[pool] = "draining"
       THEN /\ Finally(c, "raised")
            /\ UNCHANGED loc
       ELSE /\ pc' = [pc EXCEPT ![c] = "innerAcquiring"]
            /\ loc' = [loc EXCEPT ![c].innerPool = pool]
            /\ UNCHANGED <<pool, initPromise, nPools, pstate, borrowed,
                           callPool, actionOutcome, callResult, acquired,
                           released, op, made, connVars, matchVars, staticVars, vstate, upd>>
    /\ UNCHANGED <<store, pages, ret>>

\* the pool hands the inner withClient a second resource
InnerGrants(c) ==
    /\ pc[c] = "innerAcquiring"
    /\ borrowed[loc[c].innerPool] < PoolMax
    /\ borrowed' = [borrowed EXCEPT ![loc[c].innerPool] = @ + 1]
    /\ acquired' = [acquired EXCEPT ![c] = @ + 1]
    /\ pc' = [pc EXCEPT ![c] = "innerAction"]
    /\ UNCHANGED <<pool, initPromise, nPools, pstate, callPool,
                   actionOutcome, callResult, released, op, made, connVars,
                   matchVars, staticVars, vstate, upd, storeVars>>

\* the inner set() writes, and its withClient releases in finally
InnerWrite(c) ==
    /\ pc[c] = "innerAction"
    /\ store' = [store EXCEPT ![loc[c].key] = JSONStringify(loc[c].value)]
    /\ IF pool = 0
       THEN /\ loc' = [loc EXCEPT ![c].inner = "raised"]
            /\ UNCHANGED <<borrowed, released>>
       ELSE IF pool # loc[c].innerPool
       THEN /\ loc' = [loc EXCEPT ![c].inner = "returned"]
            /\ UNCHANGED <<borrowed, released>>
       ELSE /\ loc' = [loc EXCEPT ![c].inner = "returned"]
            /\ borrowed' = [borrowed EXCEPT ![loc[c].innerPool] = @ - 1]
            /\ released' = [released EXCEPT ![c] = @ + 1]
    /\ pc' = [pc EXCEPT ![c] = "innerDone"]
    /\ UNCHANGED <<pool, initPromise, nPools, pstate, callPool,
                   actionOutcome, callResult, acquired, op, made, connVars,
                   matchVars, staticVars, vstate, upd, pages, ret>>

\* the action of update() settles as its inner set() did
UpdateSettle(c) ==
    /\ pc[c] = "innerDone"
    /\ Finally(c, loc[c].inner)
    /\ UNCHANGED storeVars

(***************************************************************************)
(* SpecStore: set, get and update by concurrent calls over a store whose   *)
(* keys start absent, empty, holding a number or holding corrupted text.   *)
(***************************************************************************)
InitTexts == {Null, <<>>, <<"1">>, <<"{">>}
Values == {1}

InitStore ==
    /\ store \in [Keys -> InitTexts]
    /\ pages = << <<>> >>
    /\ loc = [c \in Calls |-> NoLoc]
    /\ ret = [c \in Calls |-> NoRet]

NextStore ==
    \/ \E c \in StoreCalls, k \in Keys, v \in Values : Set(c, k, v)
    \/ \E c \in StoreCalls, k \in Keys : Get(c, k)
    \/ \E c \in StoreCalls, k \in Keys, v \in Values : Update(c, k, v)
    \/ \E c \in StoreCalls : WithClientAcquire(c)
    \/ \E c \in StoreCalls : PoolGrants(c)
    \/ \E c \in StoreCalls : SetWrite(c)
    \/ \E c \in StoreCalls : GetRead(c)
    \/ \E c \in StoreCalls : UpdateCheck(c)
    \/ \E c \in StoreCalls : InnerAcquire(c)
    \/ \E c \in StoreCalls : InnerGrants(c)
    \/ \E c \in StoreCalls : InnerWrite(c)
    \/ \E c \in StoreCalls : UpdateSettle(c)
    \/ \E c \in StoreCalls : CallReturns(c)

InitData == IdleConn /\ IdleMatch /\ InitPool /\ InitStore /\ IdleStatic /\ IdleUpd /\ IdleVal

SpecStore == InitData /\ [][NextStore]_vars

\* C14: the step of update() that finds its key absent ends the call with
\* the key-does-not-exist error, writes nothing (the store is as it was, the
\* key still absent) and gives the borrowed resource back to its pool.
C14_UpdateMissingKey ==
    [][\A c \in StoreCalls :
          (/\ op[c] = "update"
           /\ pc[c] = "action"
           /\ pc'[c] # "action"
           /\ store[loc[c].key] = Null)
          => /\ pc'[c] = "done"
             /\ callResult'[c] = "keyNotFound"
             /\ store' = store
             /\ released'[c] = released[c] + 1
             /\ borrowed'[callPool[c]] = borrowed[callPool[c]] - 1]_vars

C14_Witness ==
    \E c \in StoreCalls :
        /\ op[c] = "update"
        /\ pc[c] = "done"
        /\ callResult[c] = "keyNotFound"
        /\ store[loc[c].key] = Null
        /\ released[c] = 1

\* C17: the step of get() that reads an absent key, or a payload that fails
\* to deserialize, ends the call normally with null and gives the borrowed
\* resource back.
C17_GetNullOnAbsentOrCorrupt ==
    [][\A c \in StoreCalls :
          (/\ op[c] = "get"
           /\ pc[c] = "action"
           /\ pc'[c] # "action"
           /\ \/ store[loc[c].key] = Null
              \/ ~JSONParse(store[loc[c].key]).ok)
          => /\ pc'[c] = "done"
             /\ callResult'[c] = "returned"
             /\ ret'[c].value = JSONNull
             /\ released'[c] = released[c] + 1
             /\ borrowed'[callPool[c]] = borrowed[callPool[c]] - 1]_vars

C17_Witness ==
    \E c \in StoreCalls :
        /\ op[c] = "get"
        /\ pc[c] = "done"
        /\ callResult[c] = "returned"
        /\ store[loc[c].key] = <<"{">>
        /\ ret[c].value = JSONNull
        /\ released[c] = 1

(***************************************************************************)
(* Cursor scans.  The store answers SCAN from a cursor with the next       *)
(* cursor and a batch of keys; cursor 0 ("0") starts the iteration and is  *)
(* returned with its last page.                                            *)
(***************************************************************************)
ScanCalls == 1..MaxScanCalls

\* the pages the store's iteration is made of
PageLayouts ==
    { << <<>> >>,
      << <<"k1", "k2">> >>,
      << <<"k1">>, <<"k2">> >>,
      << <<>>, <<"k2", "k1">>, <<"k1">> >> }

\* client.scan(cursor, 'MATCH', pattern, 'COUNT', count)
ScanReply(pg, cur) ==
    [cursor |-> IF cur + 1 >= Len(pg) THEN 0 ELSE cur + 1,
     keys   |-> pg[cur + 1]]

\* the loop of scanKeys keeping only its last batch
ScanKeepLast(acc, batch) == batch

\* keys.push(...batch)
ScanAppend(acc, batch) == acc \o batch

\* scanKeys(pattern)
ScanKeys(c) ==
    /\ Begin(c, "scanKeys")
    /\ loc' = [loc EXCEPT ![c] = NoLoc]
    /\ UNCHANGED <<store, pages, ret>>

\* one iteration of the do-while loop of scanKeys; when the reply's cursor
\* is 0 the loop ends, withClient releases and scanKeys returns keys
ScanKeysStep(c) ==
    /\ pc[c] = "action"
    /\ op[c] = "scanKeys"
    /\ LET r   == ScanReply(pages, loc[c].cursor)
           all == ScanAppend(loc[c].acc, r.keys)
       IN  /\ loc' = [loc EXCEPT ![c].cursor = r.cursor,
                                 ![c].acc = all,
                                 ![c].steps = @ + 1]
           /\ IF r.cursor # 0
              THEN UNCHANGED <<poolVars, connVars, matchVars, staticVars, vstate, upd, ret>>
              ELSE /\ Finally(c, "returned")
                   /\ ret' = [ret EXCEPT ![c].keys = all]
    /\ UNCHANGED <<store, pages>>

\* scanKeysCursor("0", pattern): the first call of a caller's loop
ScanKeysCursor(c) ==
    /\ Begin(c, "scanKeysCursor")
    /\ loc' = [loc EXCEPT ![c] = NoLoc]
    /\ UNCHANGED <<store, pages, ret>>

\* the action of scanKeysCursor: one scan from the cursor passed in
ScanCursorStep(c) ==
    /\ pc[c] = "action"
    /\ op[c] = "scanKeysCursor"
    /\ LET r == ScanReply(pages, loc[c].cursor)
       IN  ret' = [ret EXCEPT ![c].cursor = r.cursor, ![c].keys = r.keys]
    /\ Finally(c, "returned")
    /\ UNCHANGED <<store, pages, loc>>

\* the caller's loop: the returned cursor is not 0, so it keeps the batch
\* and calls scanKeysCursor again with the returned cursor
CursorLoopAgain(c) ==
    /\ pc[c] = "done"
    /\ op[c] = "scanKeysCursor"
    /\ callResult[c] = "returned"
    /\ ret[c].cursor # 0
    /\ initPool
    /\ made' = [made EXCEPT ![c] = IF pool' # pool THEN pool' ELSE 0]
    /\ pc' = [pc EXCEPT ![c] = "awaitInit"]
    /\ callPool' = [callPool EXCEPT ![c] = 0]
    /\ actionOutcome' = [actionOutcome EXCEPT ![c] = "none"]
    /\ callResult' = [callResult EXCEPT ![c] = "none"]
    /\ acquired' = [acquired EXCEPT ![c] = 0]
    /\ released' = [released EXCEPT ![c] = 0]
    /\ loc' = [loc EXCEPT ![c].cursor = ret[c].cursor,
                          ![c].acc = @ \o ret[c].keys,
                          ![c].steps = @ + 1]
    /\ ret' = [ret EXCEPT ![c] = NoRet]
    /\ UNCHANGED <<borrowed, op, store, pages, connVars, matchVars, staticVars, vstate, upd>>

\* the caller's loop: the returned cursor is 0, the enumeration is complete
CursorLoopEnd(c) ==
    /\ pc[c] = "done"
    /\ op[c] = "scanKeysCursor"
    /\ callResult[c] = "returned"
    /\ ret[c].cursor = 0
    /\ ~loc[c].loopDone
    /\ loc' = [loc EXCEPT ![c].acc = @ \o ret[c].keys,
                          ![c].steps = @ + 1,
                          ![c].loopDone = TRUE]
    /\ UNCHANGED <<poolVars, connVars, matchVars, staticVars, vstate, upd, store, pages, ret>>

\* the caller is done with the result of its scan
ScanReturns(c) ==
    /\ op[c] = "scanKeysCursor" => loc[c].loopDone
    /\ CallReturns(c)

RECURSIVE Flatten(_)
Flatten(pg) == IF pg = <<>> THEN <<>> ELSE Head(pg) \o Flatten(Tail(pg))

SeqToSet(q) == {q[i] : i \in 1..Len(q)}

InitPages ==
    /\ store = [k \in Keys |-> Null]
    /\ pages \in PageLayouts
    /\ loc = [c \in Calls |-> NoLoc]
    /\ ret = [c \in Calls |-> NoRet]

NextScan ==
    \/ \E c \in ScanCalls : ScanKeys(c)
    \/ \E c \in ScanCalls : ScanKeysCursor(c)
    \/ \E c \in ScanCalls : WithClientAcquire(c)
    \/ \E c \in ScanCalls : PoolGrants(c)
    \/ \E c \in ScanCalls : ScanKeysStep(c)
    \/ \E c \in ScanCalls : ScanCursorStep(c)
    \/ \E c \in ScanCalls : CursorLoopAgain(c)
    \/ \E c \in ScanCalls : CursorLoopEnd(c)
    \/ \E c \in ScanCalls : ScanReturns(c)

InitScan == IdleConn /\ IdleMatch /\ InitPool /\ InitPages /\ IdleStatic /\ IdleUpd /\ IdleVal

\* every continuation of a call that is ready to run is run: the pool's
\* grant, the resolution of an awaited reply, and the caller's own loop
ScanFairness ==
    \A c \in ScanCalls :
        /\ WF_vars(WithClientAcquire(c))
        /\ WF_vars(PoolGrants(c))
        /\ WF_vars(ScanKeysStep(c))
        /\ WF_vars(ScanCursorStep(c))
        /\ WF_vars(CursorLoopAgain(c))
        /\ WF_vars(CursorLoopEnd(c))

FairScan == InitScan /\ [][NextScan]_vars /\ ScanFairness

\* C15: scanKeys ends; when it has ended it returned normally, after at
\* least one scan step (one per page), the concatenation of the batches of
\* all pages in order; a caller looping scanKeysCursor from cursor 0 until
\* the returned cursor is 0 ends too, with the same set of keys.
C15_ScanKeysTerminatesWithAllPages ==
    /\ [](\A c \in ScanCalls :
            /\ (op[c] = "scanKeys" /\ pc[c] = "done")
                  => /\ callResult[c] = "returned"
                     /\ loc[c].steps >= 1
                     /\ loc[c].steps = Len(pages)
                     /\ ret[c].keys = Flatten(pages)
                     /\ SeqToSet(ret[c].keys)
                            = UNION {SeqToSet(pages[i]) : i \in 1..Len(pages)}
            /\ (op[c] = "scanKeysCursor" /\ loc[c].loopDone)
                  => /\ loc[c].steps = Len(pages)
                     /\ SeqToSet(loc[c].acc) = SeqToSet(Flatten(pages)))
    /\ \A c \in ScanCalls :
          /\ (op[c] = "scanKeys") ~> (op[c] = "scanKeys" /\ pc[c] = "done")
          /\ (op[c] = "scanKeysCursor")
                ~> (op[c] = "scanKeysCursor" /\ loc[c].loopDone)

C15_Witness ==
    \E c \in ScanCalls, d \in ScanCalls :
        /\ Len(pages) = 3
        /\ op[c] = "scanKeys"
        /\ pc[c] = "done"
        /\ ret[c].keys = <<"k2", "k1", "k1">>
        /\ op[d] = "scanKeysCursor"
        /\ loc[d].loopDone
        /\ loc[d].acc = <<"k2", "k1", "k1">>

(***************************************************************************)
(* scanAndGetJSONCursor: one scan step and one pipelined fetch of the      *)
(* page's keys, with set() calls of other callers in between.              *)
(***************************************************************************)
\* a key holding a value that is not a string: GET answers with an error
WrongType == <<"wrongtype">>

\* one entry of pipeline.exec(): [err, value] for pipeline.get(key)
PipelineReply(st, k) ==
    IF st[k] = WrongType
    THEN [err |-> TRUE, value |-> Null]
    ELSE [err |-> FALSE, value |-> st[k]]

\* result[key] for one response: raw is response[1]; a string is parsed,
\* with null when JSON.parse throws; anything else is null
jsonEntry(raw) ==
    IF raw # Null
    THEN IF JSONParse(raw).ok THEN JSONParse(raw).value ELSE JSONNull
    ELSE JSONNull

\* result[key] = value
Assign(map, k, v) == {en \in map : en.key # k} \cup {[key |-> k, value |-> v]}

\* keys.forEach((key, idx) => ...) from index i on
RECURSIVE JsonEntries(_, _, _, _)
JsonEntries(keys, st, i, map) ==
    IF i > Len(keys) THEN map
    ELSE JsonEntries(keys, st, i + 1,
             Assign(map, keys[i], jsonEntry(PipelineReply(st, keys[i]).value)))

\* the fetch with a JSON.parse failure left to propagate: the call raises
scanJSONFetchRethrows(keys, st) ==
    IF \E i \in 1..Len(keys) :
           /\ PipelineReply(st, keys[i]).value # Null
           /\ ~JSONParse(PipelineReply(st, keys[i]).value).ok
    THEN [outcome |-> "raised", map |-> {}]
    ELSE [outcome |-> "returned", map |-> JsonEntries(keys, st, 1, {})]

\* the fetch of scanAndGetJSONCursor: pipeline.exec() answers once per key
scanJSONFetch(keys, st) ==
    [outcome |-> "returned", map |-> JsonEntries(keys, st, 1, {})]

\* scanAndGetJSONCursor(cursor, pattern)
ScanJSON(c, cur) ==
    /\ Begin(c, "scanAndGetJSONCursor")
    /\ loc' = [loc EXCEPT ![c] = [NoLoc EXCEPT !.cursor = cur]]
    /\ UNCHANGED <<store, pages, ret>>

\* the action up to 'await pipeline.exec()': the scan, and for an empty
\* page the return of the next cursor with an empty result
ScanJSONScan(c) ==
    /\ pc[c] = "action"
    /\ op[c] = "scanAndGetJSONCursor"
    /\ LET r == ScanReply(pages, loc[c].cursor)
       IN  IF Len(r.keys) > 0
           THEN /\ loc' = [loc EXCEPT ![c].page = r.keys, ![c].next = r.cursor]
                /\ pc' = [pc EXCEPT ![c] = "exec"]
                /\ UNCHANGED <<pool, initPromise, nPools, pstate, borrowed,
                               callPool, actionOutcome, callResult, acquired,
                               released, op, made, connVars, matchVars, staticVars, vstate, upd, ret>>
           ELSE /\ ret' = [ret EXCEPT ![c].cursor = r.cursor, ![c].map = {}]
                /\ Finally(c, "returned")
                /\ UNCHANGED loc
    /\ UNCHANGED <<store, pages>>

\* the action from the responses of pipeline.exec() on
ScanJSONExec(c) ==
    /\ pc[c] = "exec"
    /\ LET r == scanJSONFetch(loc[c].page, store)
       IN  /\ ret' = [ret EXCEPT ![c].cursor = loc[c].next, ![c].map = r.map]
           /\ Finally(c, r.outcome)
    /\ UNCHANGED <<store, pages, loc>>

ScanTexts == InitTexts \cup {WrongType}

JSONPageLayouts ==
    { << <<"k1", "k2">> >>,
      << <<>>, <<"k2", "k1">> >> }

InitJSONStore ==
    /\ store \in [Keys -> ScanTexts]
    /\ pages \in JSONPageLayouts
    /\ loc = [c \in Calls |-> NoLoc]
    /\ ret = [c \in Calls |-> NoRet]

NextScanJSON ==
    \/ \E c \in StoreCalls, cur \in 0..1 : cur < Len(pages) /\ ScanJSON(c, cur)
    \/ \E c \in StoreCalls, k \in Keys, v \in Values : Set(c, k, v)
    \/ \E c \in StoreCalls : WithClientAcquire(c)
    \/ \E c \in StoreCalls : PoolGrants(c)
    \/ \E c \in StoreCalls : ScanJSONScan(c)
    \/ \E c \in StoreCalls : ScanJSONExec(c)
    \/ \E c \in StoreCalls : SetWrite(c)
    \/ \E c \in StoreCalls : CallReturns(c)

InitScanJSON == IdleConn /\ IdleMatch /\ InitPool /\ InitJSONStore /\ IdleStatic /\ IdleUpd /\ IdleVal

SpecScanJSON == InitScanJSON /\ [][NextScanJSON]_vars

\* what the entry of key k must be for the payload the store holds
ExpectedEntry(st, k) ==
    IF st[k] \in {Null, WrongType} THEN JSONNull
    ELSE IF st[k] = <<"1">> THEN [isNull |-> FALSE, v |-> 1]
    ELSE JSONNull

InitArgs == {"missing", "A", "B", "frozen"}

\* init() going on to the argument check although an instance exists
initNeverReturnsEarly(inst) == FALSE

\* if (RedisService.instance) return
initReturnsEarly(inst) == inst # NoInstance

\* init(options, callback) up to its await
StaticInit(c, o) ==
    /\ spc[c] = "idle"
    /\ IF initReturnsEarly(instance)
       THEN /\ spc' = [spc EXCEPT ![c] = "done"]
            /\ sres' = [sres EXCEPT ![c] = [outcome |-> "resolved",
                                            options |-> o, had |-> instance]]
            /\ UNCHANGED <<instance, initLock, nInstances>>
       ELSE IF o = "missing"
       THEN /\ spc' = [spc EXCEPT ![c] = "done"]
            /\ sres' = [sres EXCEPT ![c] = [outcome |-> "rejected",
                                            options |-> o, had |-> instance]]
            /\ UNCHANGED <<instance, initLock, nInstances>>
       ELSE /\ spc' = [spc EXCEPT ![c] = "awaiting"]
            /\ sres' = [sres EXCEPT ![c] = [outcome |-> "none",
                                            options |-> o, had |-> instance]]
            /\ IF initLock # "null"
               THEN UNCHANGED <<instance, initLock, nInstances>>
               ELSE IF o = "frozen"
               THEN /\ initLock' = "rejected"
                    /\ UNCHANGED <<instance, nInstances>>
               ELSE /\ initLock' = "resolved"
                    /\ nInstances' = nInstances + 1
                    /\ instance' = [id |-> nInstances + 1, options |-> o]
    /\ lastGet' = NoGet
    /\ UNCHANGED <<connVars, matchVars, poolVars, storeVars, upd, vstate>>

\* init() after 'await RedisService.initLock'
StaticInitSettles(c) ==
    /\ spc[c] = "awaiting"
    /\ spc' = [spc EXCEPT ![c] = "done"]
    /\ sres' = [sres EXCEPT ![c].outcome = initLock]
    /\ lastGet' = NoGet
    /\ UNCHANGED <<instance, initLock, nInstances, connVars, matchVars,
                   poolVars, storeVars, upd, vstate>>

\* the caller has seen how its init() settled
StaticInitReturns(c) ==
    /\ spc[c] = "done"
    /\ spc' = [spc EXCEPT ![c] = "idle"]
    /\ sres' = [sres EXCEPT ![c] = NoInit]
    /\ lastGet' = NoGet
    /\ UNCHANGED <<instance, initLock, nInstances, connVars, matchVars,
                   poolVars, storeVars, upd, vstate>>

\* getInstance()
GetInstance ==
    /\ lastGet' = [seen |-> TRUE,
                   outcome |-> IF instance = NoInstance THEN "raised"
                               ELSE "returned",
                   value |-> instance,
                   had |-> instance]
    /\ UNCHANGED <<instance, initLock, nInstances, spc, sres, connVars,
                   matchVars, poolVars, storeVars, upd, vstate>>

NextStatic ==
    \/ \E c \in StaticCalls, o \in InitArgs : StaticInit(c, o)
    \/ \E c \in StaticCalls : StaticInitSettles(c)
    \/ \E c \in StaticCalls : StaticInitReturns(c)
    \/ GetInstance

InitSingleton == IdleConn /\ IdleMatch /\ InitPool /\ IdleStore /\ IdleStatic /\ IdleUpd /\ IdleVal

SpecStatic == InitSingleton /\ [][NextStatic]_vars

\* C22: getInstance() raises exactly when no init() has made an instance,
\* and no init() has resolved in that case; init() without options or
\* callback when no instance exists rejects; once an instance exists every
\* init() call, whatever its arguments and however it overlaps others,
\* resolves and changes nothing, at most one instance is ever constructed
\* and getInstance() returns it.
C22_SingletonInit ==
    /\ [](/\ lastGet.seen =>
               /\ lastGet.outcome = "raised" <=> nInstances = 0
               /\ lastGet.outcome = "returned" =>
                     (lastGet.value = instance /\ lastGet.value.id = 1)
          /\ nInstances <= 1
          /\ nInstances = 0 <=> instance = NoInstance
          /\ \A c \in StaticCalls :
                /\ sres[c].outcome = "resolved" => instance # NoInstance
                /\ (spc[c] = "done" /\ sres[c].had # NoInstance)
                      => sres[c].outcome = "resolved"
                /\ (spc[c] = "done" /\ sres[c].had = NoInstance
                      /\ sres[c].options = "missing")
                      => sres[c].outcome = "rejected")
    /\ [][instance # NoInstance =>
             /\ instance' = instance
             /\ nInstances' = nInstances
             /\ initLock' = initLock]_vars

C22_Witness ==
    /\ instance = [id |-> 1, options |-> "A"]
    /\ \E c \in StaticCalls, d \in StaticCalls :
          /\ spc[c] = "awaiting"
          /\ sres[c].options = "A"
          /\ spc[d] = "done"
          /\ sres[d].options = "missing"
          /\ sres[d].outcome = "resolved"

C22_WitnessRaised ==
    /\ lastGet.seen
    /\ lastGet.outcome = "raised"
    /\ \E c \in StaticCalls : spc[c] = "done" /\ sres[c].outcome = "rejected"

(***************************************************************************)
(* update() under load.  The calls are interchangeable, so they are        *)
(* counted by the await they are at instead of being told apart: upd[p] is *)
(* the number of update() calls at position p.  The positions are those of *)
(* Update, UpdateCheck, InnerAcquire, InnerGrants, InnerWrite and          *)
(* UpdateSettle above.  The store answers every command.                   *)
(***************************************************************************)
RECURSIVE SumOver(_, _)
SumOver(f, ps) ==
    IF ps = {} THEN 0
    ELSE LET p == CHOOSE q \in ps : TRUE
         IN  f[p] + SumOver(f, ps \ {p})

\* update() calls made so far, and those that have not settled
UpdCalled == SumOver(upd, UpdPositions)
UpdInFlight == SumOver(upd, UpdPositions \ {"resolved", "rejected"})

Moved(p, q) == [upd EXCEPT ![p] = @ - 1, ![q] = @ + 1]

\* update(key, value) is called: withClient up to 'await this.initPool()'
UpdCall ==
    /\ UpdCalled < MaxUpdateCalls
    /\ initPool
    /\ upd' = [upd EXCEPT !["awaitInit"] = @ + 1]
    /\ UNCHANGED <<borrowed, pc, callPool, actionOutcome, callResult,
                   acquired, released, op, made, connVars, matchVars,
                   storeVars, staticVars, vstate>>

\* this.pool!.acquire() of the outer withClient
UpdAcquire ==
    /\ upd["awaitInit"] > 0
    /\ upd' = IF pool = 0 \/ pstate[pool] = "draining"
              THEN Moved("awaitInit", "rejected")
              ELSE Moved("awaitInit", "acquiring")
    /\ UNCHANGED <<poolVars, connVars, matchVars, storeVars, staticVars, vstate>>

\* a pool that admits a request whatever the number borrowed
UpdGrantUnbounded ==
    /\ upd["acquiring"] > 0
    /\ borrowed' = [borrowed EXCEPT ![pool] = @ + 1]
    /\ upd' = Moved("acquiring", "action")
    /\ UNCHANGED <<pool, initPromise, nPools, pstate, pc, callPool,
                   actionOutcome, callResult, acquired, released, op, made,
                   connVars, matchVars, storeVars, staticVars, vstate>>

\* the pool hands an update() its first resource
UpdGrant ==
    /\ upd["acquiring"] > 0
    /\ borrowed[pool] < PoolMax
    /\ borrowed' = [borrowed EXCEPT ![pool] = @ + 1]
    /\ upd' = Moved("acquiring", "action")
    /\ UNCHANGED <<pool, initPromise, nPools, pstate, pc, callPool,
                   actionOutcome, callResult, acquired, released, op, made,
                   connVars, matchVars, storeVars, staticVars, vstate>>

\* client.exists(key) has answered: throw and release, or call this.set,
\* whose withClient awaits initPool() with the first resource still held
UpdCheck(k) ==
    /\ upd["action"] > 0
    /\ IF ~KeyExists(store, k)
       THEN /\ borrowed' = [borrowed EXCEPT ![pool] = @ - 1]
            /\ upd' = Moved("action", "rejected")
       ELSE /\ upd' = Moved("action", "innerAwaitInit")
            /\ UNCHANGED borrowed
    /\ UNCHANGED <<pool, initPromise, nPools, pstate, pc, callPool,
                   actionOutcome, callResult, acquired, released, op, made,
                   connVars, matchVars, storeVars, staticVars, vstate>>

\* this.pool!.acquire() of the inner withClient
UpdInnerAcquire ==
    /\ upd["innerAwaitInit"] > 0
    /\ upd' = Moved("innerAwaitInit", "innerAcquiring")
    /\ UNCHANGED <<poolVars, connVars, matchVars, storeVars, staticVars, vstate>>

\* the pool hands an update() its second resource
UpdInnerGrant ==
    /\ upd["innerAcquiring"] > 0
    /\ borrowed[pool] < PoolMax
    /\ borrowed' = [borrowed EXCEPT ![pool] = @ + 1]
    /\ upd' = Moved("innerAcquiring", "innerAction")
    /\ UNCHANGED <<pool, initPromise, nPools, pstate, pc, callPool,
                   actionOutcome, callResult, acquired, released, op, made,
                   connVars, matchVars, storeVars, staticVars, vstate>>

\* the inner set() writes the key and its withClient releases
UpdInnerWrite(k, v) ==
    /\ upd["innerAction"] > 0
    /\ KeyExists(store, k)
    /\ store' = [store EXCEPT ![k] = JSONStringify(v)]
    /\ borrowed' = [borrowed EXCEPT ![pool] = @ - 1]
    /\ upd' = Moved("innerAction", "innerDone")
    /\ UNCHANGED <<pool, initPromise, nPools, pstate, pc, callPool,
                   actionOutcome, callResult, acquired, released, op, made,
                   connVars, matchVars, pages, loc, ret, staticVars, vstate>>

\* the outer action settles and the outer withClient releases
UpdSettle ==
    /\ upd["innerDone"] > 0
    /\ borrowed' = [borrowed EXCEPT ![pool] = @ - 1]
    /\ upd' = Moved("innerDone", "resolved")
    /\ UNCHANGED <<pool, initPromise, nPools, pstate, pc, callPool,
                   actionOutcome, callResult, acquired, released, op, made,
                   connVars, matchVars, storeVars, staticVars, vstate>>

InitUpdStore ==
    /\ store = [k \in Keys |-> IF k = "k1" THEN <<"1">> ELSE Null]
    /\ pages = << <<>> >>
    /\ loc = [c \in Calls |-> NoLoc]
    /\ ret = [c \in Calls |-> NoRet]

NextUpdate ==
    \/ UpdCall
    \/ UpdAcquire
    \/ UpdGrant
    \/ \E k \in Keys : UpdCheck(k)
    \/ UpdInnerAcquire
    \/ UpdInnerGrant
    \/ \E k \in Keys, v \in Values : UpdInnerWrite(k, v)
    \/ UpdSettle

InitUpdate ==
    IdleConn /\ IdleMatch /\ InitPool /\ InitUpdStore /\ IdleStatic /\ IdleUpd /\ IdleVal

\* every continuation that is ready runs, and the pool serves a waiting
\* request whenever a resource is available
UpdFairness ==
    /\ WF_vars(UpdAcquire)
    /\ WF_vars(UpdGrant)
    /\ WF_vars(\E k \in Keys : UpdCheck(k))
    /\ WF_vars(UpdInnerAcquire)
    /\ WF_vars(UpdInnerGrant)
    /\ WF_vars(\E k \in Keys, v \in Values : UpdInnerWrite(k, v))
    /\ WF_vars(UpdSettle)

FairUpdate == InitUpdate /\ [][NextUpdate]_vars /\ UpdFairness

\* C29: whenever update() calls are in flight, however many, they all
\* settle eventually, and once they have, nothing is borrowed from the
\* pool.
C29_UpdateAlwaysCompletes ==
    /\ [](UpdInFlight = 0 => \A p \in Pools : borrowed[p] = 0)
    /\ (UpdInFlight > 0) ~> (UpdInFlight = 0)

PingOutcomes == {"pong", "rejected"}

\* a validate that passes every entry
validateAlwaysTrue(ping) == [value |-> TRUE, raised |-> FALSE]

\* validate: try { await client.ping(); return true } catch { return false }
validate(ping) == [value |-> ping = "pong", raised |-> FALSE]

\* the pool option testOnBorrow
testOnBorrow == TRUE

ValLive == {e \in Entries : vstate.entry[e] \in {"idle", "borrowed"}}

\* the factory's create: new Redis(this.options), while the pool is below max
\* and has no idle entry for a waiting request or none at all
ValCreate ==
    /\ vstate.n < MaxEntries
    /\ Cardinality(ValLive) < PoolMax
    /\ \A e \in Entries : vstate.entry[e] # "idle"
    /\ vstate' = [vstate EXCEPT !.n = @ + 1, !.entry[vstate.n + 1] = "idle",
                          !.last = NoProbe]
    /\ UNCHANGED <<connVars, matchVars, poolVars, storeVars, staticVars, upd>>

\* withClient reaches this.pool!.acquire()
ValCall(c) ==
    /\ vstate.call[c] = "idle"
    /\ vstate' = [vstate EXCEPT !.call[c] = "waiting", !.last = NoProbe]
    /\ UNCHANGED <<connVars, matchVars, poolVars, storeVars, staticVars, upd>>

\* the pool takes idle entry e for the waiting call c: with testOnBorrow it
\* runs validate, whose ping settles as ping; an entry that fails is
\* destroyed and the request keeps waiting, one that passes is handed to the
\* action
ValBorrow(c, e, ping) ==
    /\ vstate.call[c] = "waiting"
    /\ vstate.entry[e] = "idle"
    /\ LET v == IF testOnBorrow THEN validate(ping)
                ELSE [value |-> TRUE, raised |-> FALSE]
       IN  vstate' = IF v.value
                  THEN [vstate EXCEPT !.entry[e] = "borrowed",
                                   !.call[c] = "action",
                                   !.got[c] = e,
                                   !.probe[e] = ping,
                                   !.last = [seen |-> TRUE, entry |-> e,
                                             ping |-> ping,
                                             value |-> v.value,
                                             raised |-> v.raised]]
                  ELSE [vstate EXCEPT !.entry[e] = "destroyed",
                                   !.probe[e] = ping,
                                   !.last = [seen |-> TRUE, entry |-> e,
                                             ping |-> ping,
                                             value |-> v.value,
                                             raised |-> v.raised]]
    /\ UNCHANGED <<connVars, matchVars, poolVars, storeVars, staticVars, upd>>

\* the action settles and the finally block releases the entry
ValRelease(c) ==
    /\ vstate.call[c] = "action"
    /\ vstate' = [vstate EXCEPT !.entry[vstate.got[c]] = "idle",
                          !.call[c] = "idle",
                          !.got[c] = 0,
                          !.last = NoProbe]
    /\ UNCHANGED <<connVars, matchVars, poolVars, storeVars, staticVars, upd>>

NextValidate ==
    \/ ValCreate
    \/ \E c \in ValCalls : ValCall(c)
    \/ \E c \in ValCalls, e \in Entries, ping \in PingOutcomes :
           ValBorrow(c, e, ping)
    \/ \E c \in ValCalls : ValRelease(c)

InitValidate == IdleConn /\ IdleMatch /\ InitPool /\ IdleStore /\ IdleStatic /\ IdleUpd /\ IdleVal

SpecValidate == InitValidate /\ [][NextValidate]_vars

\* C34: every borrow validates the entry first: the action of withClient
\* holds only an entry whose ping at that borrow answered; an entry whose
\* ping failed is destroyed, is never handed to a call, and the waiting call
\* is served with another entry; validate returns false for a failed ping
\* and never raises
C34_BorrowValidatesFirst ==
    /\ [](\A c \in ValCalls :
            vstate.call[c] = "action" =>
                /\ vstate.got[c] \in Entries
                /\ vstate.entry[vstate.got[c]] = "borrowed"
                /\ vstate.probe[vstate.got[c]] = "pong")
    /\ [](\A e \in Entries :
            vstate.probe[e] = "rejected" =>
                /\ vstate.entry[e] = "destroyed"
                /\ \A c \in ValCalls : vstate.got[c] # e)
    /\ [](vstate.last.seen =>
            /\ ~vstate.last.raised
            /\ vstate.last.value = (vstate.last.ping = "pong"))
    /\ [][ \A c \in ValCalls :
             (vstate.call[c] = "waiting" /\ vstate'.last.seen
                 /\ vstate'.last.ping = "rejected") =>
                 vstate'.call[c] = "waiting" ]_vars

\* a call runs its action on entry 2 after entry 1 failed its probe and was
\* destroyed
C34_Witness ==
    /\ vstate.probe[1] = "rejected"
    /\ vstate.entry[1] = "destroyed"
    /\ \E c \in ValCalls : vstate.call[c] = "action" /\ vstate.got[c] = 2

====
